---- MODULE Spec2Model ----
(***************************************************************************)
(* kBB-8: bootstrap of an ephemeral control plane (etcd + kube-apiserver), *)
(* publication of its credentials into the shared kubeconfig file, and     *)
(* concurrent start of the Cluster API providers.                          *)
(*                                                                         *)
(* Specifications:                                                         *)
(*   Spec      the program: main() of kBB-8.go                             *)
(*   SpecCP    a caller driving ControlPlane.Start and then                *)
(*             ControlPlane.Stop, whatever Start returned                  *)
(*   SpecKube  callers of kubeconfig.CreateOrMerge / kubeconfig.Remove on  *)
(*             an arbitrary pre-existing kubeconfig file                   *)
(*   SpecManifest  one provider reconciling its manifest against the API   *)
(*             server (setupPKI, readAndAdaptManifestObjects, the apply    *)
(*             steps of createManifestObjects), then spawning its process  *)
(*             and polling its health; run and restarted                   *)
(*   SpecHandle  a caller holding one Etcd, APIServer or Provider, calling *)
(*             its Start at most once and its Stop repeatedly              *)
(*   SpecProviders  the provider goroutines of main for providers of any   *)
(*             artifact paths, up to the return of each Provider.Start     *)
(***************************************************************************)
EXTENDS Naturals, Sequences, FiniteSets, TLC

VARIABLES
    mainPc,        \* position of the top-level caller (main, or the caller of SpecCP / SpecKube)
    crashed,       \* the process died of an unrecovered panic
    ctxDone,       \* ctx of ctrl.SetupSignalHandler() is cancelled
    cpPc,          \* position inside ControlPlane.Start / ControlPlane.Stop
    etcd,          \* cp.etcd      (*Etcd)
    apiServer,     \* cp.apiServer (*APIServer)
    cpKubeConfigContext, \* cp.KubeConfigContext
    kubeconfig,    \* the kubeconfig file on disk
    nextPort,      \* addr.Suggest: next free port
    nextCA,        \* certs.NewTinyCA: next fresh certificate authority
    log,           \* the sequential steps of the coordinating goroutine, in order
    pPc,           \* per provider: position of its goroutine
    provider,      \* per provider: the Provider value p of the loop iteration
    pStop,         \* per provider: state of the deferred p.Stop()
    pLen,          \* per provider: len(names) read by its append
    mainI,         \* main: loop index of "for i := range providers"
    wg,            \* sync.WaitGroup counter
    names,         \* main: the names slice (backing array and length)
    readyMsg,      \* the "Cluster API with ... Ready!" message, once emitted
    package,       \* per provider: the entry of Packages that is its p.PackagePath
    lastOps,       \* SpecKube: the operations applied so far, newest last
    kubeOps,       \* the load-modify-write operations on the kubeconfig file in flight
    manPc,         \* SpecManifest: position inside Provider.Start (setupPKI, createManifestObjects, ...)
    manifest,      \* SpecManifest: the document fragments of components.yaml
    objs,          \* SpecManifest: objs of createManifestObjects (*manifestObjects)
    server,        \* SpecManifest: the objects the API server holds
    requests,      \* SpecManifest: the calls of the client c, and their results, in order
    pki,           \* SpecManifest: pki of setProcessState (*providerPKI)
    pURL,          \* SpecManifest: pURL of setProcessState (*providerURL)
    manRun,        \* SpecManifest: the number of the run of the provider (restarts)
    fnI,           \* SpecManifest: loop index of "for i := range fns"
    got            \* SpecManifest: what c.Get of the running fn returned

cpVars   == <<cpPc, etcd, apiServer, cpKubeConfigContext, kubeconfig, nextPort, nextCA, log>>
provVars == <<pPc, provider, pStop, pLen, mainI, wg, names, readyMsg>>
manVars  == <<manPc, manifest, objs, server, requests, pki, pURL, manRun, fnI, got>>
pathVars == <<package>>
vars     == <<mainPc, crashed, ctxDone, cpVars, provVars, pathVars, lastOps, kubeOps, manVars>>

----------------------------------------------------------------------------
(* Bounds of the model *)

\* number of providers started by main (the source lists four)
NumProviders == 2
\* number of CreateOrMerge / Remove calls of one SpecKube run
MaxOps == 2

Providers == 1..NumProviders

----------------------------------------------------------------------------
(* Maps with string keys (Go map[string]*T) *)

EmptyMap == [k \in {} |-> 0]

MapSet(m, k, v) == [x \in (DOMAIN m) \cup {k} |-> IF x = k THEN v ELSE m[x]]

MapDel(m, k) == [x \in (DOMAIN m) \ {k} |-> m[x]]

----------------------------------------------------------------------------
(* pkg/kubeconfig *)

clusterKey(clusterName) == "kBB-8-" \o clusterName

contextKey(clusterName) == "kBB-8-" \o clusterName

userKey(clusterName) == "kBB-8-" \o clusterName \o "-admin"

\* clientcmdapi.NewConfig()
NewConfig == [Clusters |-> EmptyMap, AuthInfos |-> EmptyMap, Contexts |-> EmptyMap,
              CurrentContext |-> ""]

\* create(ca, clusterName, url) when the client certificate is issued
create(ca, clusterName, url) ==
    [Clusters  |-> MapSet(EmptyMap, clusterKey(clusterName),
                          [Server |-> url, CertificateAuthorityData |-> ca]),
     AuthInfos |-> MapSet(EmptyMap, userKey(clusterName),
                          [ClientCertificateData |-> <<ca, userKey(clusterName)>>]),
     Contexts  |-> MapSet(EmptyMap, contextKey(clusterName),
                          [Cluster |-> clusterKey(clusterName),
                           AuthInfo |-> userKey(clusterName)]),
     CurrentContext |-> contextKey(clusterName)]

\* a mutant of mergeEntry: an entry already present is kept
mergeEntryKeepExisting(existing, newName, newValue) ==
    IF newName \in DOMAIN existing THEN existing ELSE MapSet(existing, newName, newValue)

\* one iteration of a loop of merge: "for newName, newValue := range new.X"
mergeEntry(existing, newName, newValue) ==
    LET shouldAppend == ~ \E existingName \in DOMAIN existing : existingName = newName
    IN  IF shouldAppend
        THEN MapSet(existing, newName, newValue)
        ELSE [existingName \in DOMAIN existing |->
                 IF existingName = newName THEN newValue ELSE existing[existingName]]

RECURSIVE mergeMap(_, _, _)
mergeMap(new, todo, existing) ==
    IF todo = {} THEN existing
    ELSE LET newName == CHOOSE k \in todo : TRUE
         IN  mergeMap(new, todo \ {newName}, mergeEntry(existing, newName, new[newName]))

\* a mutant of merge: the file is replaced by the new entries
mergeReplacingFile(new, existing) == new

\* a mutant of merge: the current selection of the file is kept
mergeKeepingSelection(new, existing) ==
    [Clusters  |-> mergeMap(new.Clusters, DOMAIN new.Clusters, existing.Clusters),
     AuthInfos |-> mergeMap(new.AuthInfos, DOMAIN new.AuthInfos, existing.AuthInfos),
     Contexts  |-> mergeMap(new.Contexts, DOMAIN new.Contexts, existing.Contexts),
     CurrentContext |-> existing.CurrentContext]

\* merge(new, existing): the config existing is mutated into
merge(new, existing) ==
    [Clusters  |-> mergeMap(new.Clusters, DOMAIN new.Clusters, existing.Clusters),
     AuthInfos |-> mergeMap(new.AuthInfos, DOMAIN new.AuthInfos, existing.AuthInfos),
     Contexts  |-> mergeMap(new.Contexts, DOMAIN new.Contexts, existing.Contexts),
     CurrentContext |-> new.CurrentContext]

\* a mutant of remove: the current selection is cleared whatever it names
removeConfigClearingCurrent(clusterName, config) ==
    [Clusters  |-> MapDel(config.Clusters, clusterKey(clusterName)),
     AuthInfos |-> MapDel(config.AuthInfos, userKey(clusterName)),
     Contexts  |-> MapDel(config.Contexts, contextKey(clusterName)),
     CurrentContext |-> ""]

\* remove(clusterName, config): the config it is mutated into
removeConfig(clusterName, config) ==
    [Clusters  |-> MapDel(config.Clusters, clusterKey(clusterName)),
     AuthInfos |-> MapDel(config.AuthInfos, userKey(clusterName)),
     Contexts  |-> MapDel(config.Contexts, contextKey(clusterName)),
     CurrentContext |-> IF config.CurrentContext = contextKey(clusterName)
                        THEN "" ELSE config.CurrentContext]

\* remove(clusterName, config): its result, mutated
removeMutated(clusterName, config) ==
    \/ clusterKey(clusterName) \in DOMAIN config.Clusters
    \/ userKey(clusterName) \in DOMAIN config.AuthInfos
    \/ contextKey(clusterName) \in DOMAIN config.Contexts
    \/ config.CurrentContext = contextKey(clusterName)

\* the kubeconfig file: whether it exists, and the config it holds
FileOf(config) == [exists |-> TRUE, config |-> config]

NoFile == [exists |-> FALSE, config |-> NewConfig]

\* rules.Load() with no explicit path: a missing file loads as an empty config
LoadedConfig(file) == IF file.exists THEN file.config ELSE NewConfig

\* kubeconfig.CreateOrMerge(ca, url, clusterName, ""): the ways it can end.
\*   loadErr   rules.Load() fails: the error is returned
\*   certFail  create() fails: its error is dropped, merge(nil, ...) dereferences nil
\*   writeErr  clientcmd.WriteToFile fails: the error is returned
CreateOrMergeOutcomes(file, ca, url, clusterName) ==
    LET existingConfig == merge(create(ca, clusterName, url), LoadedConfig(file))
    IN  { [result |-> "err",   how |-> "loadErr",  file |-> file, context |-> ""],
          [result |-> "panic", how |-> "certFail", file |-> file, context |-> ""],
          [result |-> "err",   how |-> "writeErr", file |-> file, context |-> ""],
          [result |-> "ok",    how |-> "ok",       file |-> FileOf(existingConfig),
           context |-> existingConfig.CurrentContext] }

\* kubeconfig.Remove(clusterName, ""): the ways it can end (one file in the
\* loading precedence; clientcmd.LoadFromFile fails on a missing file)
RemoveOutcomes(file, clusterName) ==
    IF ~ file.exists
    THEN { [result |-> "err", how |-> "loadErr", file |-> file, wrote |-> FALSE] }
    ELSE { [result |-> "err", how |-> "loadErr", file |-> file, wrote |-> FALSE] }
         \cup
         ( IF removeMutated(clusterName, file.config)
           THEN { [result |-> "ok", how |-> "ok",
                   file |-> FileOf(removeConfig(clusterName, file.config)), wrote |-> TRUE],
                  [result |-> "err", how |-> "writeErr", file |-> file, wrote |-> FALSE] }
           ELSE { [result |-> "ok", how |-> "ok", file |-> file, wrote |-> FALSE] } )

----------------------------------------------------------------------------
(* pkg/process: process.State, the supervisor of one executable.           *)
(* A handle is "nil" (no State value), "init" (never started), "running"   *)
(* (spawned, health check not yet answered), "ready" or "stopped".         *)

\* State.Start(stdout, stderr): spawns and returns without waiting for readiness
ProcessStartOutcomes(ps) ==
    { [result |-> "ok", ps |-> "running"], [result |-> "err", ps |-> ps] }

\* State.Stop(): terminates the process and waits for its exit; a no-op on a
\* handle never started or already stopped; on a nil *State the receiver is
\* dereferenced
ProcessStopOutcomes(ps) ==
    CASE ps = "nil" -> { [result |-> "panic", ps |-> ps] }
      [] ps \in {"running", "ready"} ->
            { [result |-> "ok", ps |-> "stopped"], [result |-> "err", ps |-> ps] }
      [] OTHER -> { [result |-> "ok", ps |-> ps] }

\* the OS process of a handle is alive
Alive(ps) == ps \in {"running", "ready"}

----------------------------------------------------------------------------
(* The stop sequence shared by Etcd.Stop, APIServer.Stop and Provider.Stop: *)
(* processState.Stop(), logFileWriter.Flush(), logFile.Close()              *)

\* a mutant of StopSteps: the log file is left open
StopStepsNoClose(c) ==
    { [result |-> po.result, c |-> [c EXCEPT !.processState = po.ps]] :
        po \in ProcessStopOutcomes(c.processState) }

StopSteps(c) ==
    LET stopped(po) == [c EXCEPT !.processState = po.ps]
    IN  UNION { IF po.result # "ok"
                THEN { [result |-> po.result, c |-> stopped(po)] }
                ELSE CASE c.logFile = "nil" ->
                            { [result |-> "ok", c |-> stopped(po)] }
                       [] c.logFile = "open" ->
                            { [result |-> "err", c |-> stopped(po)],   \* Flush or Close fails
                              [result |-> "ok",
                               c |-> [stopped(po) EXCEPT !.logFile = "closed"]] }
                       [] OTHER ->                                      \* Close of a closed file
                            { [result |-> "err", c |-> stopped(po)] }
              : po \in ProcessStopOutcomes(c.processState) }

----------------------------------------------------------------------------
(* pkg/controlplane: Etcd and APIServer *)

\* a nil *Etcd / the zero Etcd value
NilEtcd == [alloc |-> FALSE, logFile |-> "nil", processState |-> "nil",
            dataDir |-> "none", URL |-> 0]

NilAPIServer == [alloc |-> FALSE, logFile |-> "nil", processState |-> "nil",
                 EtcdURL |-> 0, URL |-> 0, CA |-> 0]

\* Etcd.Start on &Etcd{}: setProcessState, then processState.Start.
\* port is the next port of addr.Suggest.  The outcomes, by the place that fails:
\*   errLog (Getwd, MkdirAll, OpenFile), errDataDir (MkdirAll of the data dir),
\*   errPort (addr.Suggest), errInit (processState.Init), errSpawn (processState.Start)
EtcdStartOutcomes(port) ==
    LET e0 == [NilEtcd EXCEPT !.alloc = TRUE]
        e1 == [e0 EXCEPT !.logFile = "open"]
        e2 == [e1 EXCEPT !.dataDir = "exists"]
        e3 == [e2 EXCEPT !.URL = port, !.processState = "init"]
    IN  { [result |-> "err", how |-> "errLog",     c |-> e0, ports |-> 0],
          [result |-> "err", how |-> "errDataDir", c |-> e1, ports |-> 0],
          [result |-> "err", how |-> "errPort",    c |-> e2, ports |-> 0],
          [result |-> "err", how |-> "errInit",    c |-> e3, ports |-> 2] }
        \cup
        { [result |-> po.result, how |-> IF po.result = "ok" THEN "ok" ELSE "errSpawn",
           c |-> [e3 EXCEPT !.processState = po.ps], ports |-> 2] :
            po \in ProcessStartOutcomes("init") }

\* a mutant of EtcdStopOutcomes: the data directory is left in place
EtcdStopOutcomesKeepingDataDir(e) == StopSteps(e)

\* Etcd.Stop: the stop sequence, then os.RemoveAll(e.dataDir)
EtcdStopOutcomes(e) ==
    UNION { IF so.result # "ok"
            THEN { so }
            ELSE { [result |-> "ok",  c |-> [so.c EXCEPT !.dataDir = "removed"]],
                   [result |-> "err", c |-> so.c] }
          : so \in StopSteps(e) }

\* a mutant of APIServerStartOutcomes: the API server is pointed at its own URL
APIServerStartOutcomesOwnURL(etcdURL, port, ca) ==
    { [result |-> "ok", how |-> "ok", ports |-> 1, cas |-> 2,
       c |-> [alloc |-> TRUE, logFile |-> "open", processState |-> "running",
              EtcdURL |-> port, URL |-> port, CA |-> ca]] }

\* APIServer.Start on &APIServer{EtcdURL: etcdURL}: setProcessState, then
\* processState.Start.  The outcomes, by the place that fails:
\*   errLog, errPort (addr.Suggest), errPKI (setupPKI), errInit, errSpawn
APIServerStartOutcomes(etcdURL, port, ca) ==
    LET a0 == [NilAPIServer EXCEPT !.alloc = TRUE, !.EtcdURL = etcdURL]
        a1 == [a0 EXCEPT !.logFile = "open"]
        a2 == [a1 EXCEPT !.URL = port]
        a3 == [a2 EXCEPT !.CA = ca, !.processState = "init"]
    IN  { [result |-> "err", how |-> "errLog",  c |-> a0, ports |-> 0, cas |-> 0],
          [result |-> "err", how |-> "errPort", c |-> a1, ports |-> 0, cas |-> 0],
          [result |-> "err", how |-> "errPKI",  c |-> a2, ports |-> 1, cas |-> 1],
          [result |-> "err", how |-> "errInit", c |-> a3, ports |-> 1, cas |-> 2] }
        \cup
        { [result |-> po.result, how |-> IF po.result = "ok" THEN "ok" ELSE "errSpawn",
           c |-> [a3 EXCEPT !.processState = po.ps], ports |-> 1, cas |-> 2] :
            po \in ProcessStartOutcomes("init") }

\* APIServer.Stop on a non-nil *APIServer
APIServerStopOutcomes(a) == StopSteps(a)

\* an entry of log
Step(step, result, p) == [step |-> step, result |-> result, p |-> p]

----------------------------------------------------------------------------
(* pkg/controlplane: ControlPlane *)

\* the cluster name ControlPlane passes to pkg/kubeconfig
ClusterName == "bootstrap"

\* a mutant of NextStartStep: credentials are published before the API server starts
NextStartStepPublishFirst(step) ==
    CASE step = "startEtcd" -> "publish"
      [] step = "publish"   -> "startAPI"
      [] step = "startAPI"  -> "startOK"

\* ControlPlane.Start: the step that follows a step that returned no error
NextStartStep(step) ==
    CASE step = "startEtcd" -> "startAPI"
      [] step = "startAPI"  -> "publish"
      [] step = "publish"   -> "startOK"

\* a mutant of NextStopStep: the credentials entry is removed before the store is stopped
NextStopStepRemoveBeforeEtcd(step) ==
    CASE step = "stopAPI"  -> "remove"
      [] step = "remove"   -> "stopEtcd"
      [] step = "stopEtcd" -> "stopOK"

\* ControlPlane.Stop: the step that follows a step that returned no error
NextStopStep(step) ==
    CASE step = "stopAPI"  -> "stopEtcd"
      [] step = "stopEtcd" -> "remove"
      [] step = "remove"   -> "stopOK"

\* a mutant of FirstStopStep: the credentials entry is removed first
FirstStopStepRemove == "remove"

\* ControlPlane.Stop: its first step
FirstStopStep == "stopAPI"

\* the process is running: nothing panicked, main has not returned
Live == ~ crashed /\ mainPc # "exited"

\* cp.etcd = &Etcd{...}; cp.etcd.Start()
CPStartEtcd ==
    /\ Live /\ cpPc = "startEtcd"
    /\ \E o \in EtcdStartOutcomes(nextPort) :
         /\ etcd' = o.c
         /\ nextPort' = nextPort + o.ports
         /\ cpPc' = IF o.result = "ok" THEN NextStartStep(cpPc) ELSE "startErr"
         /\ log' = Append(log, Step("etcd.Start", o.result, 0))
    /\ UNCHANGED <<mainPc, crashed, ctxDone, apiServer, cpKubeConfigContext, kubeconfig,
                   nextCA, provVars, pathVars, lastOps, kubeOps, manVars>>

\* cp.apiServer = &APIServer{EtcdURL: cp.etcd.URL, ...}; cp.apiServer.Start()
CPStartAPIServer ==
    /\ Live /\ cpPc = "startAPI"
    /\ \E o \in APIServerStartOutcomes(etcd.URL, nextPort, nextCA) :
         /\ apiServer' = o.c
         /\ nextPort' = nextPort + o.ports
         /\ nextCA' = nextCA + o.cas
         /\ cpPc' = IF o.result = "ok" THEN NextStartStep(cpPc) ELSE "startErr"
         /\ log' = Append(log, Step("apiServer.Start", o.result, 0))
    /\ UNCHANGED <<mainPc, crashed, ctxDone, etcd, cpKubeConfigContext, kubeconfig,
                   provVars, pathVars, lastOps, kubeOps, manVars>>

\* an operation on the kubeconfig file that has read the file and has not
\* yet written it back: what it is, and the file it read
InFlight(op, file) == [op |-> op, loaded |-> file]

\* kubeconfig.CreateOrMerge(cp.apiServer.CA, cp.apiServer.URL.String(), "bootstrap", ""):
\* rules.Load() reads the file
CPPublishLoad ==
    /\ Live /\ cpPc = "publish" /\ apiServer.alloc
    /\ ~ \E l \in kubeOps : l.op = "CreateOrMerge"
    /\ kubeOps' = kubeOps \cup {InFlight("CreateOrMerge", kubeconfig)}
    /\ UNCHANGED <<mainPc, crashed, ctxDone, cpVars, provVars, pathVars, lastOps, manVars>>

\* kubeconfig.CreateOrMerge, after the file was read: create, merge into what
\* was read, clientcmd.WriteToFile
\* (reading cp.apiServer.CA of a nil cp.apiServer dereferences nil)
CPPublish ==
    /\ Live /\ cpPc = "publish"
    /\ \E l \in IF apiServer.alloc
                THEN { x \in kubeOps : x.op = "CreateOrMerge" }
                ELSE { InFlight("none", kubeconfig) } :
       \E o \in IF apiServer.alloc
                THEN CreateOrMergeOutcomes(l.loaded, apiServer.CA, apiServer.URL, ClusterName)
                ELSE { [result |-> "panic", how |-> "nil", file |-> kubeconfig, context |-> ""] } :
         /\ kubeconfig' = IF o.result = "ok" THEN o.file ELSE kubeconfig
         /\ kubeOps' = kubeOps \ {l}
         /\ cpKubeConfigContext' = o.context
         /\ crashed' = (o.result = "panic")
         /\ cpPc' = CASE o.result = "ok"  -> NextStartStep(cpPc)
                      [] o.result = "err" -> "startErr"
                      [] OTHER            -> "panic"
         /\ log' = Append(log, Step("CreateOrMerge", o.result, 0))
    /\ UNCHANGED <<mainPc, ctxDone, etcd, apiServer, nextPort, nextCA, provVars, pathVars, lastOps,
                   manVars>>

\* a mutant of CPStopAPIServer: Stop goes on after the error of the API server
CPStopAPIServerIgnoringError ==
    /\ Live /\ cpPc = "stopAPI"
    /\ \E o \in IF apiServer.alloc
                THEN APIServerStopOutcomes(apiServer)
                ELSE { [result |-> "panic", c |-> apiServer] } :
         /\ apiServer' = o.c
         /\ crashed' = (o.result = "panic")
         /\ cpPc' = IF o.result = "panic" THEN "panic" ELSE NextStopStep(cpPc)
         /\ log' = Append(log, Step("apiServer.Stop", o.result, 0))
    /\ UNCHANGED <<mainPc, ctxDone, etcd, cpKubeConfigContext, kubeconfig, nextPort, nextCA,
                   provVars, pathVars, lastOps, kubeOps, manVars>>

\* cp.apiServer.Stop(): a nil cp.apiServer is dereferenced by a.processState
CPStopAPIServer ==
    /\ Live /\ cpPc = "stopAPI"
    /\ \E o \in IF apiServer.alloc
                THEN APIServerStopOutcomes(apiServer)
                ELSE { [result |-> "panic", c |-> apiServer] } :
         /\ apiServer' = o.c
         /\ crashed' = (o.result = "panic")
         /\ cpPc' = CASE o.result = "ok"  -> NextStopStep(cpPc)
                      [] o.result = "err" -> "stopErr"
                      [] OTHER            -> "panic"
         /\ log' = Append(log, Step("apiServer.Stop", o.result, 0))
    /\ UNCHANGED <<mainPc, ctxDone, etcd, cpKubeConfigContext, kubeconfig, nextPort, nextCA,
                   provVars, pathVars, lastOps, kubeOps, manVars>>

\* cp.etcd.Stop()
CPStopEtcd ==
    /\ Live /\ cpPc = "stopEtcd"
    /\ \E o \in IF etcd.alloc
                THEN EtcdStopOutcomes(etcd)
                ELSE { [result |-> "panic", c |-> etcd] } :
         /\ etcd' = o.c
         /\ crashed' = (o.result = "panic")
         /\ cpPc' = CASE o.result = "ok"  -> NextStopStep(cpPc)
                      [] o.result = "err" -> "stopErr"
                      [] OTHER            -> "panic"
         /\ log' = Append(log, Step("etcd.Stop", o.result, 0))
    /\ UNCHANGED <<mainPc, ctxDone, apiServer, cpKubeConfigContext, kubeconfig, nextPort,
                   nextCA, provVars, pathVars, lastOps, kubeOps, manVars>>

\* a mutant of CPRemoveLoad: Stop is not ordered after Start, its Remove
\* may read the file while the CreateOrMerge of Start is in flight
CPRemoveLoadUnordered ==
    /\ Live
    /\ \/ cpPc = "remove"
       \/ cpPc = "publish" /\ \E l \in kubeOps : l.op = "CreateOrMerge"
    /\ ~ \E l \in kubeOps : l.op = "Remove"
    /\ kubeOps' = kubeOps \cup {InFlight("Remove", kubeconfig)}
    /\ UNCHANGED <<mainPc, crashed, ctxDone, cpVars, provVars, pathVars, lastOps, manVars>>

\* kubeconfig.Remove("bootstrap", ""): clientcmd.LoadFromFile reads the file
CPRemoveLoad ==
    /\ Live /\ cpPc = "remove"
    /\ ~ \E l \in kubeOps : l.op = "Remove"
    /\ kubeOps' = kubeOps \cup {InFlight("Remove", kubeconfig)}
    /\ UNCHANGED <<mainPc, crashed, ctxDone, cpVars, provVars, pathVars, lastOps, manVars>>

\* kubeconfig.Remove, after the file was read: remove from what was read,
\* clientcmd.WriteToFile if that changed it
CPRemove ==
    /\ Live /\ cpPc = "remove"
    /\ \E l \in { x \in kubeOps : x.op = "Remove" } :
       \E o \in RemoveOutcomes(l.loaded, ClusterName) :
         /\ kubeconfig' = IF o.wrote THEN o.file ELSE kubeconfig
         /\ kubeOps' = kubeOps \ {l}
         /\ cpPc' = IF o.result = "ok" THEN NextStopStep(cpPc) ELSE "stopErr"
         /\ log' = Append(log, Step("Remove", o.result, 0))
    /\ UNCHANGED <<mainPc, crashed, ctxDone, etcd, apiServer, cpKubeConfigContext,
                   nextPort, nextCA, provVars, pathVars, lastOps, manVars>>

\* the etcd process answers /health
EtcdHealthy ==
    /\ Live /\ etcd.processState = "running"
    /\ etcd' = [etcd EXCEPT !.processState = "ready"]
    /\ UNCHANGED <<mainPc, crashed, ctxDone, cpPc, apiServer, cpKubeConfigContext, kubeconfig,
                   nextPort, nextCA, log, provVars, pathVars, lastOps, kubeOps, manVars>>

\* the kube-apiserver process answers /readyz
APIServerHealthy ==
    /\ Live /\ apiServer.processState = "running"
    /\ apiServer' = [apiServer EXCEPT !.processState = "ready"]
    /\ UNCHANGED <<mainPc, crashed, ctxDone, cpPc, etcd, cpKubeConfigContext, kubeconfig,
                   nextPort, nextCA, log, provVars, pathVars, lastOps, kubeOps, manVars>>

CPNext ==
    \/ CPStartEtcd
    \/ CPStartAPIServer
    \/ CPPublishLoad
    \/ CPPublish
    \/ CPStopAPIServer
    \/ CPStopEtcd
    \/ CPRemoveLoad
    \/ CPRemove
    \/ EtcdHealthy
    \/ APIServerHealthy

----------------------------------------------------------------------------
(* The kubeconfig files a run can find: entries of a previous run of kBB-8  *)
(* and entries managed by others, under the key "ext"                       *)

OldCluster == [Server |-> 0, CertificateAuthorityData |-> 0]
OldUser    == [ClientCertificateData |-> <<0, "old">>]
OldContext(k) == [Cluster |-> k, AuthInfo |-> k]

ConstMap(keys, v) == [k \in keys |-> v]

PreexistingConfigs ==
    { [Clusters  |-> ConstMap(cs, OldCluster),
       AuthInfos |-> ConstMap(us, OldUser),
       Contexts  |-> [k \in xs |-> OldContext(k)],
       CurrentContext |-> cur] :
        cs \in SUBSET {clusterKey(ClusterName), "ext"},
        us \in SUBSET {userKey(ClusterName), "ext"},
        xs \in SUBSET {contextKey(ClusterName), "ext"},
        cur \in {"", "ext", contextKey(ClusterName)} }

PreexistingFiles == {NoFile} \cup { FileOf(c) : c \in PreexistingConfigs }

\* the files a run of the program is checked against: none, one of another
\* tool, one holding the entries of an earlier run
ProgramFiles ==
    { NoFile,
      FileOf([Clusters  |-> ConstMap({"ext"}, OldCluster),
              AuthInfos |-> ConstMap({"ext"}, OldUser),
              Contexts  |-> [k \in {"ext"} |-> OldContext(k)],
              CurrentContext |-> "ext"]),
      FileOf([Clusters  |-> ConstMap({clusterKey(ClusterName)}, OldCluster),
              AuthInfos |-> ConstMap({userKey(ClusterName)}, OldUser),
              Contexts  |-> [k \in {contextKey(ClusterName)} |-> OldContext(k)],
              CurrentContext |-> contextKey(ClusterName)]) }

----------------------------------------------------------------------------
(* Paths and names: strings are sequences of characters, so that the       *)
(* functions of strings and path/filepath are modelled by what they do     *)

LowerLetters == <<"a", "b", "c", "d", "e", "f", "g", "h", "i", "j", "k", "l", "m",
                  "n", "o", "p", "q", "r", "s", "t", "u", "v", "w", "x", "y", "z">>

UpperLetters == <<"A", "B", "C", "D", "E", "F", "G", "H", "I", "J", "K", "L", "M",
                  "N", "O", "P", "Q", "R", "S", "T", "U", "V", "W", "X", "Y", "Z">>

\* the character c mapped from the alphabet from to the alphabet to
MapLetter(c, from, to) ==
    IF \E k \in DOMAIN from : from[k] = c
    THEN to[CHOOSE k \in DOMAIN from : from[k] = c]
    ELSE c

\* strings.ToUpper, strings.ToLower
ToUpper(str) == [k \in DOMAIN str |-> MapLetter(str[k], LowerLetters, UpperLetters)]

ToLower(str) == [k \in DOMAIN str |-> MapLetter(str[k], UpperLetters, LowerLetters)]

\* strings.TrimPrefix
TrimPrefix(str, prefix) ==
    IF Len(str) >= Len(prefix) /\ SubSeq(str, 1, Len(prefix)) = prefix
    THEN SubSeq(str, Len(prefix) + 1, Len(str))
    ELSE str

\* filepath.Base: trailing separators are dropped, then everything up to the
\* last separator; "." for the empty path, "/" for a path of separators only
RECURSIVE StripTrailingSeparators(_)
StripTrailingSeparators(path) ==
    IF Len(path) > 0 /\ path[Len(path)] = "/"
    THEN StripTrailingSeparators(SubSeq(path, 1, Len(path) - 1))
    ELSE path

Base(path) ==
    IF path = <<>> THEN <<".">>
    ELSE LET stripped == StripTrailingSeparators(path)
             seps     == { k \in DOMAIN stripped : stripped[k] = "/" }
             last     == IF seps = {} THEN 0
                         ELSE CHOOSE k \in seps : \A j \in seps : j <= k
             base     == SubSeq(stripped, last + 1, Len(stripped))
         IN  IF base = <<>> THEN <<"/">> ELSE base

\* the prefix "bootstrap-"
BootstrapPrefix == <<"b", "o", "o", "t", "s", "t", "r", "a", "p", "-">>

\* a mutant of Name: the prefix is kept
NameKeepingPrefix(PackagePath) == ToUpper(Base(PackagePath))

\* Provider.Name()
Name(PackagePath) == ToUpper(TrimPrefix(Base(PackagePath), BootstrapPrefix))

\* filepath.Join(currentDir, ".tmp", "provider", strings.ToLower(p.Name())),
\* relative to currentDir, for a name that is a file name
LocalPathOf(PackagePath) ==
    <<".", "t", "m", "p", "/", "p", "r", "o", "v", "i", "d", "e", "r", "/">>
        \o ToLower(Name(PackagePath))

\* filepath.Join(localPath, "manager.log")
ManagerLog(dir) == dir \o <<"/", "m", "a", "n", "a", "g", "e", "r", ".", "l", "o", "g">>

\* filepath.Join(localPath, "ca")
ServingCertDir(dir) == dir \o <<"/", "c", "a">>

\* "./test/packages/"
PackagesDir == <<".", "/", "t", "e", "s", "t", "/", "p", "a", "c", "k", "a", "g", "e", "s", "/">>

\* the PackagePath of the providers of main's list
MainPackages ==
    << PackagesDir \o BootstrapPrefix \o <<"c", "a", "p", "i">>,
       PackagesDir \o BootstrapPrefix \o <<"c", "a", "b", "p", "k">>,
       PackagesDir \o BootstrapPrefix \o <<"k", "c", "p">>,
       PackagesDir \o BootstrapPrefix \o <<"c", "a", "p", "d">> >>

\* the artifact paths the providers of SpecProviders are drawn from:
\*   a/bootstrap-x   a/bootstrap-y   b/bootstrap-x   a/bootstrap-X
\*   a/my-bootstrap-x   a/x/
ArtifactPathList ==
    << <<"a", "/">> \o BootstrapPrefix \o <<"x">>,
       <<"a", "/">> \o BootstrapPrefix \o <<"y">>,
       <<"b", "/">> \o BootstrapPrefix \o <<"x">>,
       <<"a", "/">> \o BootstrapPrefix \o <<"X">>,
       <<"a", "/", "m", "y", "-">> \o BootstrapPrefix \o <<"x">>,
       <<"a", "/", "x", "/">> >>

\* the artifact paths of the model: those of main, then those of ArtifactPathList
Packages == MainPackages \o ArtifactPathList

\* the zero Provider value of main's list
NilProvider == [logFile |-> "nil", processState |-> "nil", webhookPort |-> 0,
                healthPort |-> 0, CA |-> 0]

\* names = make([]string, 0, len(providers))
EmptyNames == [arr |-> [k \in Providers |-> 0], len |-> 0]

\* the state before main, or a caller of the packages, has done anything
InitCommon ==
    /\ crashed = FALSE
    /\ ctxDone = FALSE
    /\ cpPc = "idle"
    /\ etcd = NilEtcd
    /\ apiServer = NilAPIServer
    /\ cpKubeConfigContext = ""
    /\ nextPort = 1
    /\ nextCA = 1
    /\ log = <<>>
    /\ pPc = [i \in Providers |-> "notLaunched"]
    /\ provider = [i \in Providers |-> NilProvider]
    /\ pStop = [i \in Providers |-> "none"]
    /\ pLen = [i \in Providers |-> 0]
    /\ mainI = 1
    /\ wg = 0
    /\ names = EmptyNames
    /\ readyMsg = <<"none">>
    /\ lastOps = <<>>
    /\ kubeOps = {}

----------------------------------------------------------------------------
(* The values of the variables of SpecManifest where no provider reconciles *)

NoObjs == [crds |-> <<>>, mutHooks |-> <<>>, valHooks |-> <<>>]

NilPKI == [dir |-> "", caData |-> <<"nil">>, hookCA |-> 0]

\* what c.Get of an apply step returned: whether the object was found, and
\* its ResourceVersion
NoGet == [found |-> FALSE, ResourceVersion |-> 0]

NilURL == [host |-> "", webhookPort |-> 0]

ManIdle ==
    /\ manPc = "idle"
    /\ manifest = <<>>
    /\ objs = NoObjs
    /\ server = EmptyMap
    /\ requests = <<>>
    /\ pki = NilPKI
    /\ pURL = NilURL
    /\ manRun = 0
    /\ fnI = 0
    /\ got = NoGet

----------------------------------------------------------------------------
(* SpecCP: a caller of ControlPlane that follows its contract: Start, then  *)
(* Stop whatever Start returned                                             *)

InitCP ==
    /\ InitCommon
    /\ package = [i \in Providers |-> i]
    /\ ManIdle
    /\ mainPc = "callStart"
    /\ kubeconfig \in ProgramFiles

CallerStart ==
    /\ Live /\ mainPc = "callStart"
    /\ mainPc' = "inStart"
    /\ cpPc' = "startEtcd"
    /\ UNCHANGED <<crashed, ctxDone, etcd, apiServer, cpKubeConfigContext, kubeconfig,
                   nextPort, nextCA, log, provVars, pathVars, lastOps, kubeOps, manVars>>

CallerStop ==
    /\ Live /\ mainPc = "inStart" /\ cpPc \in {"startOK", "startErr"}
    /\ mainPc' = "inStop"
    /\ cpPc' = FirstStopStep
    /\ UNCHANGED <<crashed, ctxDone, etcd, apiServer, cpKubeConfigContext, kubeconfig,
                   nextPort, nextCA, log, provVars, pathVars, lastOps, kubeOps, manVars>>

CallerDone ==
    /\ Live /\ mainPc = "inStop" /\ cpPc \in {"stopOK", "stopErr"}
    /\ mainPc' = "stopReturned"
    /\ UNCHANGED <<crashed, ctxDone, cpVars, provVars, pathVars, lastOps, kubeOps, manVars>>

NextCP ==
    \/ CallerStart
    \/ CallerStop
    \/ CallerDone
    \/ CPNext

SpecCP == InitCP /\ [][NextCP]_vars

----------------------------------------------------------------------------
(* pkg/provider: Provider *)

\* Provider.setProcessState on a Provider of main's list.  port is the next
\* port of addr.Suggest, ca the next fresh CA.  The outcomes, by the place
\* that fails:
\*   errLog, errPort (addr.Suggest), errPKI (setupPKI),
\*   manifestErr   (createManifestObjects returns the error of readAndAdaptManifestObjects),
\*   manifestPanic (createManifestObjects panics: no client, or an apply step failed),
\*   errInit       (processState.Init)
SetProcessStateOutcomes(port, ca) ==
    LET p1 == [NilProvider EXCEPT !.logFile = "open"]
        p2 == [p1 EXCEPT !.webhookPort = port, !.healthPort = port + 1]
        p3 == [p2 EXCEPT !.CA = ca]
        p4 == [p3 EXCEPT !.processState = "init"]
    IN  { [result |-> "err",   how |-> "errLog",        c |-> NilProvider, ports |-> 0, cas |-> 0],
          [result |-> "err",   how |-> "errPort",       c |-> p1, ports |-> 0, cas |-> 0],
          [result |-> "err",   how |-> "errPKI",        c |-> p2, ports |-> 2, cas |-> 0],
          [result |-> "err",   how |-> "manifestErr",   c |-> p3, ports |-> 2, cas |-> 1],
          [result |-> "panic", how |-> "manifestPanic", c |-> p3, ports |-> 2, cas |-> 1],
          [result |-> "err",   how |-> "errInit",       c |-> p4, ports |-> 2, cas |-> 1],
          [result |-> "ok",    how |-> "ok",            c |-> p4, ports |-> 2, cas |-> 1] }

\* Provider.Stop
ProviderStopOutcomes(p) == StopSteps(p)

\* a mutant of PollOutcomes: the poll gives up on a process that is only spawned
PollOutcomesNoWait(ps, done) ==
    IF Alive(ps) THEN {"ok"} ELSE {}

\* wait.PollImmediateInfiniteWithContext(ctx, 100ms, p.processState.Ready):
\* how the poll can end in the current state (not at all while neither holds)
PollOutcomes(ps, done) ==
    (IF ps = "ready" THEN {"ok"} ELSE {}) \cup (IF done THEN {"err"} ELSE {})

----------------------------------------------------------------------------
(* kBB-8.go: main *)

\* the elements of the slice names
NamesOf(n) == [k \in 1..n.len |-> n.arr[k]]

InitMain ==
    /\ InitCommon
    /\ package = [i \in Providers |-> i]
    /\ ManIdle
    /\ mainPc = "init"
    /\ kubeconfig \in ProgramFiles

\* cp.Start()
MainStartControlPlane ==
    /\ Live /\ mainPc = "init"
    /\ mainPc' = "cpStart"
    /\ cpPc' = "startEtcd"
    /\ UNCHANGED <<crashed, ctxDone, etcd, apiServer, cpKubeConfigContext, kubeconfig,
                   nextPort, nextCA, log, provVars, pathVars, lastOps, kubeOps, manVars>>

\* if err := cp.Start(); err != nil { panic(err) };  defer cp.Stop()
MainControlPlaneStarted ==
    /\ Live /\ mainPc = "cpStart" /\ cpPc \in {"startOK", "startErr"}
    /\ IF cpPc = "startOK"
       THEN mainPc' = "launch" /\ crashed' = FALSE
       ELSE mainPc' = mainPc /\ crashed' = TRUE
    /\ UNCHANGED <<ctxDone, cpVars, provVars, pathVars, lastOps, kubeOps, manVars>>

\* one iteration of "for i := range providers":
\* p := providers[i]; wg.Add(1); go func() {...}(); defer p.Stop()
MainLaunch ==
    /\ Live /\ mainPc = "launch"
    /\ IF mainI <= NumProviders
       THEN /\ wg' = wg + 1
            /\ pPc' = [pPc EXCEPT ![mainI] = "setProcessState"]
            /\ pStop' = [pStop EXCEPT ![mainI] = "deferred"]
            /\ mainI' = mainI + 1
            /\ mainPc' = mainPc
       ELSE /\ mainPc' = "wait"
            /\ UNCHANGED <<wg, pPc, pStop, mainI>>
    /\ UNCHANGED <<crashed, ctxDone, cpVars, provider, pLen, names, readyMsg, pathVars, lastOps, kubeOps, manVars>>

\* p.Start: p.setProcessState(ctx, kubeConfig)
PSetProcessState(i) ==
    /\ Live /\ pPc[i] = "setProcessState"
    /\ \E o \in SetProcessStateOutcomes(nextPort, nextCA) :
         /\ provider' = [provider EXCEPT ![i] = o.c]
         /\ nextPort' = nextPort + o.ports
         /\ nextCA' = nextCA + o.cas
         /\ crashed' = (o.result = "panic")
         /\ pPc' = [pPc EXCEPT ![i] = CASE o.result = "ok"  -> "processStart"
                                         [] o.result = "err" -> "startErr"
                                         [] OTHER            -> "manifestPanic"]
    /\ UNCHANGED <<mainPc, ctxDone, cpPc, etcd, apiServer, cpKubeConfigContext, kubeconfig,
                   log, pStop, pLen, mainI, wg, names, readyMsg, pathVars, lastOps,
                   kubeOps, manVars>>

\* p.Start: p.processState.Start(p.logFileWriter, p.logFileWriter)
PProcessStart(i) ==
    /\ Live /\ pPc[i] = "processStart"
    /\ \E o \in ProcessStartOutcomes(provider[i].processState) :
         /\ provider' = [provider EXCEPT ![i].processState = o.ps]
         /\ pPc' = [pPc EXCEPT ![i] = IF o.result = "ok" THEN "poll" ELSE "startErr"]
    /\ UNCHANGED <<mainPc, crashed, ctxDone, cpVars, pStop, pLen, mainI, wg, names,
                   readyMsg, pathVars, lastOps, kubeOps, manVars>>

\* the provider's manager process answers /healthz
ProviderHealthy(i) ==
    /\ Live /\ provider[i].processState = "running"
    /\ provider' = [provider EXCEPT ![i].processState = "ready"]
    /\ UNCHANGED <<mainPc, crashed, ctxDone, cpVars, pPc, pStop, pLen, mainI, wg, names,
                   readyMsg, pathVars, lastOps, kubeOps, manVars>>

\* p.Start: the readiness poll ends, and Start returns
PPoll(i) ==
    /\ Live /\ pPc[i] = "poll"
    /\ \E r \in PollOutcomes(provider[i].processState, ctxDone) :
         pPc' = [pPc EXCEPT ![i] = IF r = "ok" THEN "append" ELSE "startErr"]
    /\ UNCHANGED <<mainPc, crashed, ctxDone, cpVars, provider, pStop, pLen, mainI, wg,
                   names, readyMsg, pathVars, lastOps, kubeOps, manVars>>

\* if err := p.Start(...); err != nil { panic(err) }
PPanic(i) ==
    /\ Live /\ pPc[i] = "startErr"
    /\ crashed' = TRUE
    /\ pPc' = [pPc EXCEPT ![i] = "startPanic"]
    /\ UNCHANGED <<mainPc, ctxDone, cpVars, provider, pStop, pLen, mainI, wg, names,
                   readyMsg, pathVars, lastOps, kubeOps, manVars>>

\* names = append(names, p.Name()), first half: the slice header is read
PAppendRead(i) ==
    /\ Live /\ pPc[i] = "append"
    /\ pLen' = [pLen EXCEPT ![i] = names.len]
    /\ pPc' = [pPc EXCEPT ![i] = "appendWrite"]
    /\ UNCHANGED <<mainPc, crashed, ctxDone, cpVars, provider, pStop, mainI, wg, names,
                   readyMsg, pathVars, lastOps, kubeOps, manVars>>

\* names = append(names, p.Name()), second half: the element and the new
\* header are written (no lock: the header read may be stale by now)
PAppendWrite(i) ==
    /\ Live /\ pPc[i] = "appendWrite"
    /\ names' = [arr |-> [names.arr EXCEPT ![pLen[i] + 1] = i], len |-> pLen[i] + 1]
    /\ pPc' = [pPc EXCEPT ![i] = "wgDone"]
    /\ UNCHANGED <<mainPc, crashed, ctxDone, cpVars, provider, pStop, pLen, mainI, wg,
                   readyMsg, pathVars, lastOps, kubeOps, manVars>>

\* wg.Done()
PWgDone(i) ==
    /\ Live /\ pPc[i] = "wgDone"
    /\ wg' = wg - 1
    /\ pPc' = [pPc EXCEPT ![i] = "done"]
    /\ UNCHANGED <<mainPc, crashed, ctxDone, cpVars, provider, pStop, pLen, mainI, names,
                   readyMsg, pathVars, lastOps, kubeOps, manVars>>

\* a mutant of WaitGroupDone: Wait returns while one worker is still running
WaitGroupDoneEarly(counter) == counter <= 1

\* wg.Wait() returns once the counter is zero
WaitGroupDone(counter) == counter = 0

\* wg.Wait() returns; s.FinalMSG = "... Cluster API with <names> Ready!"; s.Stop()
MainReady ==
    /\ Live /\ mainPc = "wait" /\ WaitGroupDone(wg)
    /\ readyMsg' = <<"Ready", NamesOf(names)>>
    /\ mainPc' = "block"
    /\ UNCHANGED <<crashed, ctxDone, cpVars, pPc, provider, pStop, pLen, mainI, wg, names,
                   pathVars, lastOps, kubeOps, manVars>>

\* the signal handler cancels ctx
Cancel ==
    /\ Live /\ ~ ctxDone
    /\ ctxDone' = TRUE
    /\ UNCHANGED <<mainPc, crashed, cpVars, provVars, pathVars, lastOps, kubeOps, manVars>>

\* select { case <-ctx.Done(): }; main returns and its deferred calls run,
\* last deferred first
MainCtxDone ==
    /\ Live /\ mainPc = "block" /\ ctxDone
    /\ mainPc' = "stopProviders"
    /\ mainI' = NumProviders
    /\ UNCHANGED <<crashed, ctxDone, cpVars, pPc, provider, pStop, pLen, wg, names,
                   readyMsg, pathVars, lastOps, kubeOps, manVars>>

\* the deferred p.Stop() of provider mainI (its result is dropped); after the
\* last one, the deferred cp.Stop()
MainStopProvider ==
    /\ Live /\ mainPc = "stopProviders"
    /\ IF mainI >= 1
       THEN \E o \in ProviderStopOutcomes(provider[mainI]) :
              /\ provider' = [provider EXCEPT ![mainI] = o.c]
              /\ pStop' = [pStop EXCEPT ![mainI] = o.result]
              /\ crashed' = (o.result = "panic")
              /\ log' = Append(log, Step("p.Stop", o.result, mainI))
              /\ mainI' = mainI - 1
              /\ UNCHANGED <<mainPc, cpPc>>
       ELSE /\ mainPc' = "cpStop"
            /\ cpPc' = FirstStopStep
            /\ UNCHANGED <<provider, pStop, crashed, log, mainI>>
    /\ UNCHANGED <<ctxDone, etcd, apiServer, cpKubeConfigContext, kubeconfig, nextPort,
                   nextCA, pPc, pLen, wg, names, readyMsg, pathVars, lastOps, kubeOps, manVars>>

\* the deferred cp.Stop() returned (its result is dropped): the process exits
MainExit ==
    /\ Live /\ mainPc = "cpStop" /\ cpPc \in {"stopOK", "stopErr"}
    /\ mainPc' = "exited"
    /\ UNCHANGED <<crashed, ctxDone, cpVars, provVars, pathVars, lastOps, kubeOps, manVars>>

Next ==
    \/ MainStartControlPlane
    \/ MainControlPlaneStarted
    \/ MainLaunch
    \/ \E i \in Providers : PSetProcessState(i)
    \/ \E i \in Providers : PProcessStart(i)
    \/ \E i \in Providers : ProviderHealthy(i)
    \/ \E i \in Providers : PPoll(i)
    \/ \E i \in Providers : PPanic(i)
    \/ \E i \in Providers : PAppendRead(i)
    \/ \E i \in Providers : PAppendWrite(i)
    \/ \E i \in Providers : PWgDone(i)
    \/ MainReady
    \/ Cancel
    \/ MainCtxDone
    \/ MainStopProvider
    \/ MainExit
    \/ CPNext

Spec == InitMain /\ [][Next]_vars

----------------------------------------------------------------------------
(* SpecKube: a caller applying kubeconfig.CreateOrMerge and                 *)
(* kubeconfig.Remove, one call after the other, to a file it did not create *)

\* the cluster names, and the (url, ca) pairs, the calls are made with
KubeNames == {ClusterName, "dev"}
KubeEndpoints == {<<1, 1>>, <<2, 2>>}

InitKube ==
    /\ InitCommon
    /\ package = [i \in Providers |-> i]
    /\ ManIdle
    /\ mainPc = "kube"
    /\ kubeconfig \in PreexistingFiles

KubeCreateOrMerge ==
    /\ Live /\ mainPc = "kube" /\ Len(lastOps) < MaxOps
    /\ \E clusterName \in KubeNames, ep \in KubeEndpoints :
         \E o \in CreateOrMergeOutcomes(kubeconfig, ep[2], ep[1], clusterName) :
           /\ kubeconfig' = o.file
           /\ crashed' = (o.result = "panic")
           /\ lastOps' = Append(lastOps,
                  [op |-> "CreateOrMerge", clusterName |-> clusterName, url |-> ep[1],
                   ca |-> ep[2], result |-> o.result, how |-> o.how, wrote |-> o.result = "ok",
                   context |-> o.context, before |-> kubeconfig, after |-> o.file])
    /\ UNCHANGED <<mainPc, ctxDone, cpPc, etcd, apiServer, cpKubeConfigContext, nextPort,
                   nextCA, log, provVars, pathVars, kubeOps, manVars>>

KubeRemove ==
    /\ Live /\ mainPc = "kube" /\ Len(lastOps) < MaxOps
    /\ \E clusterName \in KubeNames :
         \E o \in RemoveOutcomes(kubeconfig, clusterName) :
           /\ kubeconfig' = o.file
           /\ lastOps' = Append(lastOps,
                  [op |-> "Remove", clusterName |-> clusterName, url |-> 0,
                   ca |-> 0, result |-> o.result, how |-> o.how, wrote |-> o.wrote,
                   context |-> "", before |-> kubeconfig, after |-> o.file])
    /\ UNCHANGED <<mainPc, crashed, ctxDone, cpPc, etcd, apiServer, cpKubeConfigContext,
                   nextPort, nextCA, log, provVars, pathVars, kubeOps, manVars>>

NextKube ==
    \/ KubeCreateOrMerge
    \/ KubeRemove

SpecKube == InitKube /\ [][NextKube]_vars

----------------------------------------------------------------------------
(* Properties *)

\* the program has ended: main returned, or a panic killed the process
Terminated == crashed \/ mainPc = "exited"

\* provider i's Start returned nil
StartSucceeded(i) == pPc[i] \in {"append", "appendWrite", "wgDone", "done"}

\* provider i's Start returned an error
StartFailed(i) == pPc[i] \in {"startErr", "startPanic"}

\* provider i's goroutine runs, or ran, p.Start
ReachedStart(i) == pPc[i] # "notLaunched"

\* log holds step `step` before position j
Before(step, j) == \E k \in 1..(j - 1) : log[k].step = step

\* log holds step `step`, returned without error, before position j
BeforeOK(step, j) == \E k \in 1..(j - 1) : log[k].step = step /\ log[k].result = "ok"

\* C1: the coordinator passes wg.Wait() and emits the "Ready" message only
\* after every provider's Start returned nil, its readiness poll having seen
\* the process ready; it is never emitted while a provider has failed or is
\* still starting.
C1_ReadyOnlyAfterAllStarted ==
    (readyMsg[1] = "Ready" \/ mainPc \in {"block", "stopProviders", "cpStop", "exited"})
        => \A i \in Providers :
              /\ StartSucceeded(i)
              /\ pPc[i] = "done"
              /\ provider[i].processState \in {"ready", "stopped"}

C1_Witness ==
    /\ readyMsg[1] = "Ready"
    /\ mainPc = "block"
    /\ \A i \in Providers : provider[i].processState = "ready"

\* C2: when a provider's Start fails, the failure reaches the coordinator as
\* a result: the process does not crash and the other providers run on.
C2_FailureIsSurfacedWithoutCrash ==
    \A i \in Providers : StartFailed(i) => ~ crashed

\* C3: when the program has ended, every provider that reached Start() has
\* had its Stop run (and no process of such a provider is left alive),
\* whether the orchestration succeeded, a provider failed, or the run was
\* cancelled.
C3_EveryStartedProviderIsStopped ==
    Terminated =>
        \A i \in Providers :
            ReachedStart(i) => /\ pStop[i] \in {"ok", "err"}
                               /\ (pStop[i] = "ok" => ~ Alive(provider[i].processState))

\* C4: once all providers have succeeded and appended their name, names
\* holds exactly one entry per provider.
C4_NamesHoldsEveryProvider ==
    (\A i \in Providers : pPc[i] = "done")
        => /\ names.len = NumProviders
           /\ { names.arr[k] : k \in 1..names.len } = Providers

\* the order of the steps of ControlPlane.Start that C5 states
ClaimedStartOrder == <<"etcd.Start", "apiServer.Start", "CreateOrMerge">>

\* C5: ControlPlane.Start runs store start, API server start, credentials
\* publish in this order, each step only after the one before returned
\* success; the API server is given the store's allocated endpoint; when a
\* step errors Start returns at once: no later step runs and nothing
\* started earlier is stopped.
C5_StartIsStrictlySequential ==
    mainPc = "inStart" =>
        /\ Len(log) <= 3
        /\ \A j \in 1..Len(log) :
              /\ log[j].step = ClaimedStartOrder[j]
              /\ (j < Len(log) => log[j].result = "ok")
        /\ (apiServer.alloc => etcd.URL # 0 /\ apiServer.EtcdURL = etcd.URL)
        /\ (cpPc = "startErr" =>
              /\ Len(log) >= 1
              /\ log[Len(log)].result = "err"
              /\ (Len(log) >= 2 => Alive(etcd.processState))
              /\ (Len(log) >= 3 => Alive(apiServer.processState)))
        /\ (cpPc = "startOK" =>
              /\ Len(log) = 3
              /\ log[3].result = "ok")

C5_Witness ==
    /\ mainPc = "inStart"
    /\ cpPc = "startErr"
    /\ Len(log) = 3
    /\ log[3] = Step("CreateOrMerge", "err", 0)
    /\ Alive(etcd.processState)
    /\ Alive(apiServer.processState)

\* the credentials entry has been published
Published == \E k \in 1..Len(log) : log[k] = Step("CreateOrMerge", "ok", 0)

\* C6: startup is health-gated: while the API server process runs the store
\* has answered its health check, credentials are published only once the
\* API server has answered its health check, and no provider begins its
\* startup before credentials are published.
C6_StartupIsHealthGated ==
    /\ (Alive(apiServer.processState) => etcd.processState = "ready")
    /\ (cpPc = "startOK" => apiServer.processState = "ready")
    /\ (\A i \in Providers : ReachedStart(i) => Published)

\* a step of ControlPlane.Start returned an error
StartReturnedError ==
    \E k \in 1..Len(log) :
        log[k].step \in {"etcd.Start", "apiServer.Start", "CreateOrMerge"} /\ log[k].result = "err"

\* C7: ControlPlane.Stop called after a failed Start does not panic, and
\* every component that was started has its own stop step run, whatever
\* the other stop steps did.
C7_StopToleratesPartialStart ==
    (mainPc \in {"inStop", "stopReturned"} /\ StartReturnedError) =>
        /\ ~ crashed
        /\ (mainPc = "stopReturned" =>
              /\ (etcd.processState # "nil" => Before("etcd.Stop", Len(log) + 1))
              /\ (apiServer.processState # "nil" => Before("apiServer.Stop", Len(log) + 1)))

\* C8: after a fully successful start, teardown stops every provider, then
\* the API server, then the store, then removes the credentials entry: no
\* step starts before the one before it has returned.
C8_TeardownOrder ==
    /\ \A j \in 1..Len(log) :
          /\ (log[j].step = "apiServer.Stop" =>
                 \A i \in Providers : \E k \in 1..(j - 1) : log[k].step = "p.Stop" /\ log[k].p = i)
          /\ (log[j].step = "etcd.Stop" => BeforeOK("apiServer.Stop", j))
          /\ (log[j].step = "Remove" => BeforeOK("etcd.Stop", j))
          /\ (log[j].step = "p.Stop" =>
                 ~ \E k \in 1..(j - 1) : log[k].step \in {"apiServer.Stop", "etcd.Stop", "Remove"})
    /\ ((mainPc = "exited" /\ cpPc = "stopOK") =>
          /\ Len(log) = 3 + NumProviders + 3
          /\ \A j \in 1..NumProviders : log[3 + j].step = "p.Stop"
          /\ log[3 + NumProviders + 1].step = "apiServer.Stop"
          /\ log[3 + NumProviders + 2].step = "etcd.Stop"
          /\ log[3 + NumProviders + 3].step = "Remove")

C8_Witness ==
    /\ mainPc = "exited"
    /\ cpPc = "stopOK"
    /\ \A i \in Providers : pStop[i] = "ok"
    /\ log[Len(log)] = Step("Remove", "ok", 0)

\* C9 as stated: in ControlPlane.Stop after a successful Start the
\* credentials entry is removed before the API server is stopped, and the
\* API server is stopped before the store.
C9_RemoveThenAPIServerThenStore ==
    Published =>
        \A j \in 1..Len(log) :
            /\ (log[j].step = "apiServer.Stop" => Before("Remove", j))
            /\ (log[j].step = "etcd.Stop" => Before("apiServer.Stop", j))

\* C9 as amended: in ControlPlane.Stop the API server is stopped first, the
\* store is stopped only after the API server's stop returned success, and
\* the credentials entry is removed last, only after the store's stop
\* returned success.
C9_APIServerThenStoreThenRemove ==
    \A j \in 1..Len(log) :
        /\ (log[j].step = "apiServer.Stop" => ~ Before("etcd.Stop", j) /\ ~ Before("Remove", j))
        /\ (log[j].step = "etcd.Stop" => BeforeOK("apiServer.Stop", j) /\ ~ Before("Remove", j))
        /\ (log[j].step = "Remove" => BeforeOK("apiServer.Stop", j) /\ BeforeOK("etcd.Stop", j))

C9_Witness ==
    /\ Published
    /\ mainPc = "inStop"
    /\ cpPc = "stopOK"
    /\ Len(log) = 6
    /\ log[6] = Step("Remove", "ok", 0)

\* the last two calls of SpecKube are successful merges of one cluster name
TwoMerges ==
    /\ Len(lastOps) >= 2
    /\ lastOps[Len(lastOps) - 1].op = "CreateOrMerge"
    /\ lastOps[Len(lastOps) - 1].result = "ok"
    /\ lastOps[Len(lastOps)].op = "CreateOrMerge"
    /\ lastOps[Len(lastOps)].result = "ok"
    /\ lastOps[Len(lastOps)].clusterName = lastOps[Len(lastOps) - 1].clusterName

\* C10: merging an entry for one cluster name twice into any file leaves
\* one entry under each derived key of the three maps, holding the values
\* of the second merge, adds no other entry, and merging the same values
\* twice gives what merging them once gave.
C10_MergeTwice ==
    TwoMerges =>
        LET first  == lastOps[Len(lastOps) - 1]
            second == lastOps[Len(lastOps)]
            n      == second.clusterName
            start  == LoadedConfig(first.before)
            cfg    == kubeconfig.config
        IN  /\ kubeconfig.exists
            /\ DOMAIN cfg.Clusters  = (DOMAIN start.Clusters)  \cup {"kBB-8-" \o n}
            /\ DOMAIN cfg.AuthInfos = (DOMAIN start.AuthInfos) \cup {"kBB-8-" \o n \o "-admin"}
            /\ DOMAIN cfg.Contexts  = (DOMAIN start.Contexts)  \cup {"kBB-8-" \o n}
            /\ cfg.Clusters["kBB-8-" \o n] =
                  [Server |-> second.url, CertificateAuthorityData |-> second.ca]
            /\ cfg.AuthInfos["kBB-8-" \o n \o "-admin"] =
                  [ClientCertificateData |-> <<second.ca, "kBB-8-" \o n \o "-admin">>]
            /\ cfg.Contexts["kBB-8-" \o n] =
                  [Cluster |-> "kBB-8-" \o n, AuthInfo |-> "kBB-8-" \o n \o "-admin"]
            /\ cfg.CurrentContext = "kBB-8-" \o n
            /\ ((first.url = second.url /\ first.ca = second.ca) => kubeconfig = first.after)

C10_Witness ==
    /\ TwoMerges
    /\ lastOps[1].before.exists
    /\ clusterKey(lastOps[1].clusterName) \in DOMAIN lastOps[1].before.config.Clusters
    /\ lastOps[1].url # lastOps[2].url
    /\ kubeconfig.config.Clusters[clusterKey(lastOps[2].clusterName)].Server = lastOps[2].url


\* the derived keys of a cluster name, written out
DerivedClusterKey(n) == "kBB-8-" \o n
DerivedUserKey(n)    == "kBB-8-" \o n \o "-admin"
DerivedContextKey(n) == "kBB-8-" \o n

\* call k of SpecKube is a successful Remove of the name the successful
\* CreateOrMerge before it was made with
RemoveAfterMerge(k) ==
    /\ k \in 2..Len(lastOps)
    /\ lastOps[k - 1].op = "CreateOrMerge"
    /\ lastOps[k - 1].result = "ok"
    /\ lastOps[k].op = "Remove"
    /\ lastOps[k].result = "ok"

\* C11: a removal that follows a merge leaves no entry under the derived
\* cluster key, the derived user key or the derived context key of its
\* cluster name, and it clears the current selection if and only if the
\* current selection was that cluster's derived context key: a current
\* selection naming another context is left unchanged.
C11_RemoveAfterMerge ==
    \A k \in 1..Len(lastOps) :
        RemoveAfterMerge(k) =>
            LET n      == lastOps[k].clusterName
                before == lastOps[k].before.config
                after  == lastOps[k].after.config
            IN  /\ lastOps[k].after.exists
                /\ DerivedClusterKey(n) \notin DOMAIN after.Clusters
                /\ DerivedUserKey(n)    \notin DOMAIN after.AuthInfos
                /\ DerivedContextKey(n) \notin DOMAIN after.Contexts
                /\ (before.CurrentContext = DerivedContextKey(n) => after.CurrentContext = "")
                /\ (before.CurrentContext # DerivedContextKey(n)
                       => after.CurrentContext = before.CurrentContext)

\* a merge of "bootstrap" into a file of an earlier run, then its removal:
\* the entries are gone, the selection is cleared, the foreign entry stays
C11_Witness ==
    /\ RemoveAfterMerge(2)
    /\ lastOps[1].clusterName = ClusterName
    /\ lastOps[2].clusterName = ClusterName
    /\ "ext" \in DOMAIN lastOps[1].before.config.Clusters
    /\ lastOps[2].before.config.CurrentContext = DerivedContextKey(ClusterName)
    /\ lastOps[2].wrote
    /\ kubeconfig.config.CurrentContext = ""
    /\ DOMAIN kubeconfig.config.Clusters = {"ext"}


\* the file call k of SpecKube finds holds no trace of the call's cluster
\* name: none of its three derived keys, and the current selection does not
\* name it (a file that does not exist holds nothing)
NeverMerged(k) ==
    LET n      == lastOps[k].clusterName
        before == LoadedConfig(lastOps[k].before)
    IN  /\ DerivedClusterKey(n) \notin DOMAIN before.Clusters
        /\ DerivedUserKey(n)    \notin DOMAIN before.AuthInfos
        /\ DerivedContextKey(n) \notin DOMAIN before.Contexts
        /\ before.CurrentContext # DerivedContextKey(n)

\* the file of call k could not be read although it exists (permissions,
\* malformed content): a fault of the environment
ReadFault(k) == lastOps[k].before.exists /\ lastOps[k].how = "loadErr"

\* C12: removing a cluster name that was never merged into the credentials
\* file returns no error and mutates nothing: the file is what it was and no
\* write is performed; so a second Remove leaves what the first left.
C12_RemoveOfAbsentNameIsNoOp ==
    \A k \in 1..Len(lastOps) :
        (lastOps[k].op = "Remove" /\ NeverMerged(k) /\ ~ReadFault(k)) =>
            /\ lastOps[k].result = "ok"
            /\ ~lastOps[k].wrote
            /\ lastOps[k].after = lastOps[k].before

\* the part of C12 that holds: when the file exists and can be read, the
\* removal of an absent name succeeds without a write, and a Remove
\* repeated after a successful Remove changes nothing
C12_NoOpOnExistingFile ==
    \A k \in 1..Len(lastOps) :
        /\ (lastOps[k].op = "Remove" /\ NeverMerged(k) /\ lastOps[k].before.exists
              /\ ~ReadFault(k)) =>
                /\ lastOps[k].result = "ok"
                /\ ~lastOps[k].wrote
                /\ lastOps[k].after = lastOps[k].before
        /\ (k > 1 /\ lastOps[k].op = "Remove" /\ lastOps[k - 1].op = "Remove"
              /\ lastOps[k - 1].result = "ok" /\ lastOps[k].result = "ok"
              /\ lastOps[k].clusterName = lastOps[k - 1].clusterName) =>
                lastOps[k].after = lastOps[k - 1].after


\* the entries of map after under the keys other than derived are the
\* entries of map before under those keys
SameExcept(before, after, derived) ==
    /\ (DOMAIN after) \ derived = (DOMAIN before) \ derived
    /\ \A key \in (DOMAIN before) \ derived : after[key] = before[key]

\* the cluster names the calls of SpecKube were made with
NamesUsed == { lastOps[k].clusterName : k \in 1..Len(lastOps) }

\* C13: merge and remove touch only the keys derived from the cluster name
\* they are given: every entry of the clusters, users and contexts maps under
\* another key has the same value after each call, and after the whole
\* sequence of calls, as before it.
C13_OnlyDerivedKeysAreTouched ==
    /\ \A k \in 1..Len(lastOps) :
          LET n      == lastOps[k].clusterName
              before == LoadedConfig(lastOps[k].before)
              after  == LoadedConfig(lastOps[k].after)
          IN  /\ SameExcept(before.Clusters,  after.Clusters,  {DerivedClusterKey(n)})
              /\ SameExcept(before.AuthInfos, after.AuthInfos, {DerivedUserKey(n)})
              /\ SameExcept(before.Contexts,  after.Contexts,  {DerivedContextKey(n)})
    /\ Len(lastOps) > 0 =>
          LET start == LoadedConfig(lastOps[1].before)
              end   == LoadedConfig(kubeconfig)
          IN  /\ SameExcept(start.Clusters, end.Clusters,
                            { DerivedClusterKey(n) : n \in NamesUsed })
              /\ SameExcept(start.AuthInfos, end.AuthInfos,
                            { DerivedUserKey(n) : n \in NamesUsed })
              /\ SameExcept(start.Contexts, end.Contexts,
                            { DerivedContextKey(n) : n \in NamesUsed })

\* a merge of "dev" and a removal of "dev" on a file that holds a foreign
\* entry and the entry of "bootstrap" in each map: both are still there
C13_Witness ==
    /\ Len(lastOps) = 2
    /\ lastOps[1].op = "CreateOrMerge" /\ lastOps[1].result = "ok"
    /\ lastOps[2].op = "Remove" /\ lastOps[2].result = "ok" /\ lastOps[2].wrote
    /\ lastOps[1].clusterName = "dev" /\ lastOps[2].clusterName = "dev"
    /\ DOMAIN lastOps[1].before.config.Clusters = {DerivedClusterKey(ClusterName), "ext"}
    /\ DOMAIN kubeconfig.config.Clusters  = {DerivedClusterKey(ClusterName), "ext"}
    /\ DOMAIN kubeconfig.config.AuthInfos = {DerivedUserKey(ClusterName), "ext"}
    /\ DOMAIN kubeconfig.config.Contexts  = {DerivedContextKey(ClusterName), "ext"}
    /\ kubeconfig.config.Clusters["ext"] = OldCluster


\* C14: the merges and removals on the credentials file are serialized: at
\* most one load-modify-write operation (CreateOrMerge or Remove) is in
\* flight at a time, and every write of the file is made by the one
\* operation in flight on top of the content it read, so no update is lost.
C14_KubeconfigOperationsAreSerialized ==
    [][ /\ Cardinality(kubeOps') <= 1
        /\ (kubeconfig' # kubeconfig) =>
              \E l \in kubeOps : /\ kubeOps = {l}
                                 /\ l.loaded = kubeconfig
                                 /\ kubeOps' = {} ]_vars

\* the Remove of ControlPlane.Stop has read the file that the CreateOrMerge
\* of ControlPlane.Start wrote
C14_Witness ==
    /\ kubeOps = {InFlight("Remove", kubeconfig)}
    /\ \E k \in 1..Len(log) : log[k] = Step("CreateOrMerge", "ok", 0)
    /\ kubeconfig.exists
    /\ DerivedClusterKey(ClusterName) \in DOMAIN kubeconfig.config.Clusters
    /\ kubeconfig.config.Clusters[DerivedClusterKey(ClusterName)].Server = apiServer.URL


----------------------------------------------------------------------------
(* pkg/provider: the objects of a provider's manifest.  A Go pointer is a  *)
(* record with the field isNil; a *string is a string, "nil" when nil.     *)

\* the longest manifest, in document fragments
MaxFrags == 2

\* the runs of one provider against one API server (a run, then restarts)
MaxRuns == 2

\* the objects deleted by another client of the API server
MaxDeletes == 1

CRD     == "CustomResourceDefinition"
MutHook == "MutatingWebhookConfiguration"
ValHook == "ValidatingWebhookConfiguration"

\* fmt.Sprintf("%d", n)
Digits == <<"0", "1", "2", "3", "4", "5", "6", "7", "8", "9">>

RECURSIVE Itoa(_)
Itoa(n) == IF n < 10 THEN Digits[n + 1] ELSE Itoa(n \div 10) \o Digits[(n % 10) + 1]

\* providerURL.webhookHostPort: net.JoinHostPort(u.host, fmt.Sprintf("%d", u.webhookPort))
webhookHostPort(u) == u.host \o ":" \o Itoa(u.webhookPort)

\* localServingUrl.String() of readAndAdaptManifestObjects
localServingUrl(u) == "https://" \o webhookHostPort(u)

\* *ServiceReference and WebhookClientConfig
NilService == [isNil |-> TRUE, Path |-> "nil"]

ServiceRef(path) == [isNil |-> FALSE, Path |-> path]

ClientConfig(service, url, caBundle) ==
    [Service |-> service, URL |-> url, CABundle |-> caBundle]

NilClientConfig == ClientConfig(NilService, "nil", <<"nil">>)

\* *WebhookConversion and *CustomResourceConversion
NilWebhookConversion ==
    [isNil |-> TRUE, ConversionReviewVersions |-> <<>>, ClientConfig |-> NilClientConfig]

NilConversion == [isNil |-> TRUE, Strategy |-> "", Webhook |-> NilWebhookConversion]

\* conversion: {strategy: None}
NoneConversion == [isNil |-> FALSE, Strategy |-> "None", Webhook |-> NilWebhookConversion]

\* conversion: {strategy: Webhook, webhook: {clientConfig: {service: ...}}}
ServiceConversion ==
    [isNil |-> FALSE, Strategy |-> "Webhook",
     Webhook |-> [isNil |-> FALSE, ConversionReviewVersions |-> <<"v1">>,
                  ClientConfig |-> ClientConfig(ServiceRef("/convert"), "nil", <<"nil">>)]]

\* a document fragment of the manifest, and the object it unmarshals into:
\* Conversion is Spec.Conversion of a CRD, Webhooks the Webhooks of a
\* webhook configuration (each entry reduced to its ClientConfig)
Doc(kind, apiVersion, name, conversion, webhooks) ==
    [Kind |-> kind, APIVersion |-> apiVersion, Name |-> name,
     Conversion |-> conversion, Webhooks |-> webhooks]

\* the fragments the manifests are made of
Fragments ==
    { Doc(CRD, "apiextensions.k8s.io/v1", "clusters", NilConversion, <<>>),
      Doc(CRD, "apiextensions.k8s.io/v1", "machines", ServiceConversion, <<>>),
      Doc(CRD, "apiextensions.k8s.io/v1", "ipaddresses", NoneConversion, <<>>),
      Doc(CRD, "apiextensions.k8s.io/v1beta1", "oldclusters", NilConversion, <<>>),
      Doc(MutHook, "admissionregistration.k8s.io/v1", "mutating", NilConversion,
          << ClientConfig(ServiceRef("/mutate"), "nil", <<"nil">>) >>),
      Doc(MutHook, "admissionregistration.k8s.io/v1beta1", "oldmutating", NilConversion,
          << ClientConfig(ServiceRef("/mutate"), "nil", <<"nil">>) >>),
      Doc(ValHook, "admissionregistration.k8s.io/v1", "validating", NilConversion,
          << ClientConfig(ServiceRef("/validate"), "nil", <<"nil">>),
             ClientConfig(ServiceRef("healthz"), "nil", <<"nil">>) >>),
      Doc(ValHook, "admissionregistration.k8s.io/v1", "external", NilConversion,
          << ClientConfig(NilService, "https://example.org/hook", <<"nil">>) >>),
      Doc(ValHook, "admissionregistration.k8s.io/v1", "pathless", NilConversion,
          << ClientConfig(ServiceRef("nil"), "nil", <<"nil">>) >>),
      Doc("Deployment", "apps/v1", "manager", NilConversion, <<>>),
      Doc("Deployment", "extensions/v1beta1", "oldmanager", NilConversion, <<>>) }

\* the manifests: up to MaxFrags fragments, no fragment twice
Manifests ==
    { m \in UNION { [1..n -> Fragments] : n \in 0..MaxFrags } :
        \A i, j \in DOMAIN m : i # j => m[i] # m[j] }

\* a mutant of Classify: the apiVersion of a fragment is not looked at
ClassifyAnyVersion(doc) ==
    CASE doc.Kind = CRD     -> "crd"
      [] doc.Kind = MutHook -> "mutHook"
      [] doc.Kind = ValHook -> "valHook"
      [] OTHER              -> "skip"

ClassifyVersionOfEveryKind(doc) ==
    CASE doc.Kind = CRD ->
           IF doc.APIVersion # "apiextensions.k8s.io/v1" THEN "err" ELSE "crd"
      [] doc.Kind = MutHook ->
           IF doc.APIVersion # "admissionregistration.k8s.io/v1" THEN "err" ELSE "mutHook"
      [] doc.Kind = ValHook ->
           IF doc.APIVersion # "admissionregistration.k8s.io/v1" THEN "err" ELSE "valHook"
      [] OTHER -> IF doc.APIVersion # "apps/v1" THEN "err" ELSE "skip"

\* the switch of readAndAdaptManifestObjects on one fragment: "crd",
\* "mutHook", "valHook", "skip" (default: continue), or "err"
Classify(doc) ==
    CASE doc.Kind = CRD ->
           IF doc.APIVersion # "apiextensions.k8s.io/v1" THEN "err" ELSE "crd"
      [] doc.Kind = MutHook ->
           IF doc.APIVersion # "admissionregistration.k8s.io/v1" THEN "err" ELSE "mutHook"
      [] doc.Kind = ValHook ->
           IF doc.APIVersion # "admissionregistration.k8s.io/v1" THEN "err" ELSE "valHook"
      [] OTHER -> "skip"

\* the first loop of readAndAdaptManifestObjects from fragment i on: ret,
\* or the error of the first fragment of an unsupported version
RECURSIVE classifyDocs(_, _, _)
classifyDocs(docs, i, ret) ==
    IF i > Len(docs) THEN [result |-> "ok", ret |-> ret]
    ELSE LET c == Classify(docs[i])
         IN  CASE c = "err"     -> [result |-> "err", ret |-> NoObjs]
               [] c = "crd"     ->
                    classifyDocs(docs, i + 1, [ret EXCEPT !.crds = Append(@, docs[i])])
               [] c = "mutHook" ->
                    classifyDocs(docs, i + 1, [ret EXCEPT !.mutHooks = Append(@, docs[i])])
               [] c = "valHook" ->
                    classifyDocs(docs, i + 1, [ret EXCEPT !.valHooks = Append(@, docs[i])])
               [] OTHER         -> classifyDocs(docs, i + 1, ret)

\* the body of the loop that adapts ret.crds[i]; panics (nil dereference)
\* when Spec.Conversion is set and Spec.Conversion.Webhook is nil
AdaptCRDPanics(crd) == ~crd.Conversion.isNil /\ crd.Conversion.Webhook.isNil

AdaptCRD(crd, thePki, u) ==
    LET conv == IF crd.Conversion.isNil
                THEN [isNil |-> FALSE, Strategy |-> "",
                      Webhook |-> [NilWebhookConversion EXCEPT !.isNil = FALSE]]
                ELSE crd.Conversion
    IN  [crd EXCEPT !.Conversion =
            [isNil |-> FALSE, Strategy |-> "Webhook",
             Webhook |-> [isNil |-> FALSE, ConversionReviewVersions |-> <<"v1", "v1beta1">>,
                          ClientConfig |-> ClientConfig(NilService,
                                              localServingUrl(u) \o "/convert",
                                              thePki.caData)]]]

\* a mutant of AdaptWebhookPanics: Service and Path are checked before use
AdaptWebhookChecksService(cc) == FALSE

\* the body of the loops that adapt Webhooks[j] of a webhook configuration;
\* panics (nil dereference) when ClientConfig.Service or its Path is nil
AdaptWebhookPanics(cc) == cc.Service.isNil \/ cc.Service.Path = "nil"

AdaptWebhook(cc, thePki, u) ==
    ClientConfig(NilService, localServingUrl(u) \o "/" \o cc.Service.Path, thePki.caData)

AdaptHook(hook, thePki, u) ==
    [hook EXCEPT !.Webhooks = [j \in DOMAIN hook.Webhooks |->
                                  AdaptWebhook(hook.Webhooks[j], thePki, u)]]

\* readAndAdaptManifestObjects(manifestPath, pki, u) on the fragments docs
readAndAdaptManifestObjects(docs, thePki, u) ==
    LET c == classifyDocs(docs, 1, NoObjs)
        hooks == c.ret.mutHooks \o c.ret.valHooks
    IN  IF c.result = "err" THEN [result |-> "err", objs |-> NoObjs]
        ELSE IF \/ \E i \in DOMAIN c.ret.crds : AdaptCRDPanics(c.ret.crds[i])
                \/ \E i \in DOMAIN hooks : \E j \in DOMAIN hooks[i].Webhooks :
                      AdaptWebhookPanics(hooks[i].Webhooks[j])
        THEN [result |-> "panic", objs |-> NoObjs]
        ELSE [result |-> "ok",
              objs |-> [crds     |-> [i \in DOMAIN c.ret.crds |->
                                         AdaptCRD(c.ret.crds[i], thePki, u)],
                        mutHooks |-> [i \in DOMAIN c.ret.mutHooks |->
                                         AdaptHook(c.ret.mutHooks[i], thePki, u)],
                        valHooks |-> [i \in DOMAIN c.ret.valHooks |->
                                         AdaptHook(c.ret.valHooks[i], thePki, u)]]]


----------------------------------------------------------------------------
(* SpecManifest: one provider, from setProcessState to the return of       *)
(* createManifestObjects, run and restarted against one API server          *)

\* certs.NewTinyCA: the certificate of CA number ca; NewServingCert: a
\* serving certificate it signs for the names dnsNames
CACert(ca) == <<"ca", ca>>

ServingCert(ca, dnsNames) == <<"serving", ca, dnsNames>>

\* setupPKI(localPath, u), with the fresh CA it creates: hookCA is its local
\* variable, kept to tell which CA the provider was given
setupPKI(localPath, u, ca) ==
    LET hookCert == ServingCert(ca, <<"localhost", u.host>>)
        certData == hookCert
    IN  [dir |-> localPath \o "/ca", caData |-> certData, hookCA |-> ca]

\* a mutant of Fns: the webhook configurations are applied before the CRDs
FnsHooksFirst(o) == o.mutHooks \o o.valHooks \o o.crds

\* fns of createManifestObjects: the objects in the order they are applied
Fns(o) == o.crds \o o.mutHooks \o o.valHooks

\* client.ObjectKeyFromObject, with the kind of the typed object
ObjectKey(obj) == obj.Kind \o "/" \o obj.Name

\* a call of the client c by the run, or an event of the API server, as
\* recorded in requests
Request(verb, obj, result) ==
    [verb |-> verb, key |-> ObjectKey(obj), result |-> result, run |-> manRun]

IsReadyWhenStored(obj, stored) == TRUE

\* the readiness predicate of the poll of an object the server holds:
\* crdhelpers.IsCRDConditionTrue(Established) for a CRD, existence otherwise
IsReady(obj, stored) == IF obj.Kind = CRD THEN stored.established ELSE TRUE

InitManifest ==
    /\ InitCommon
    /\ package = [i \in Providers |-> i]
    /\ mainPc = "manifest"
    /\ kubeconfig = FileOf(merge(create(1, ClusterName, 1), NewConfig))
    /\ manPc = "setProcessState"
    /\ manifest \in Manifests
    /\ objs = NoObjs
    /\ server = EmptyMap
    /\ requests = <<>>
    /\ pki = NilPKI
    /\ pURL = NilURL
    /\ manRun = 1
    /\ fnI = 0
    /\ got = NoGet

\* setProcessState up to the call of createManifestObjects: the log file,
\* the two ports of addr.Suggest, then setupPKI; each can fail, what was
\* allocated before stays allocated
ManSetProcessState ==
    /\ Live /\ manPc = "setProcessState"
    /\ \E how \in {"errLog", "errPort", "errPKI", "ok"} :
         LET u == [host |-> "127.0.0.1", webhookPort |-> nextPort]
         IN  /\ manPc' = IF how = "ok" THEN "read" ELSE "errSetup"
             /\ pURL' = IF how \in {"errPKI", "ok"} THEN u ELSE pURL
             /\ nextPort' = IF how \in {"errPKI", "ok"} THEN nextPort + 2 ELSE nextPort
             /\ pki' = IF how = "ok" THEN setupPKI(".tmp/provider", u, nextCA) ELSE pki
             /\ nextCA' = IF how = "ok" THEN nextCA + 1 ELSE nextCA
    /\ UNCHANGED <<mainPc, crashed, ctxDone, cpPc, etcd, apiServer, cpKubeConfigContext,
                   kubeconfig, log, provVars, pathVars, lastOps, kubeOps, manifest, objs, server,
                   requests, manRun, fnI, got>>

\* createManifestObjects up to the loop over fns: the client is created
\* (panic on failure), the manifest is read and adapted (its error is
\* returned, a nil dereference in it panics)
ManReadAndAdapt ==
    /\ Live /\ manPc = "read"
    /\ \E how \in {"panicClient", "errRead", "read"} :
         LET r == readAndAdaptManifestObjects(manifest, pki, pURL)
         IN  /\ manPc' = CASE how # "read"         -> how
                           [] r.result = "err"     -> "errConfig"
                           [] r.result = "panic"   -> "panicAdapt"
                           [] Len(Fns(r.objs)) = 0 -> "done"
                           [] OTHER                -> "get"
             /\ objs' = IF how = "read" THEN r.objs ELSE objs
             /\ fnI' = IF how = "read" /\ r.result = "ok" THEN 1 ELSE fnI
             /\ crashed' = (how = "panicClient" \/ (how = "read" /\ r.result = "panic"))
    /\ UNCHANGED <<mainPc, ctxDone, cpVars, provVars, pathVars, lastOps, kubeOps, manifest, server,
                   requests, pki, pURL, manRun, got>>


\* the object the running fn applies
CurrentObj == Fns(objs)[fnI]

\* the calls of apply steps can fail for reasons of the API server or the
\* network, and do fail once ctx is done: each has the outcome "apiErr"
\* c.Get(ctx, client.ObjectKeyFromObject(obj), resource) of the running fn
ManGet ==
    /\ Live /\ manPc = "get"
    /\ \E result \in IF ctxDone THEN {"apiErr"} ELSE {"apiErr", "answer"} :
         LET key   == ObjectKey(CurrentObj)
             found == key \in DOMAIN server
             res   == IF result = "apiErr" THEN "apiErr"
                      ELSE IF found THEN "found" ELSE "notFound"
         IN  /\ got' = IF res = "found"
                       THEN [found |-> TRUE, ResourceVersion |-> server[key].ResourceVersion]
                       ELSE NoGet
             /\ requests' = Append(requests, Request("get", CurrentObj, res))
             /\ manPc' = IF res = "apiErr" THEN "panicApply" ELSE "write"
             /\ crashed' = (res = "apiErr")
    /\ UNCHANGED <<mainPc, ctxDone, cpVars, provVars, pathVars, lastOps, kubeOps, manifest, objs,
                   server, pki, pURL, manRun, fnI>>

\* a mutant of ApplyVerb: the object is created whatever the Get returned
ApplyVerbAlwaysCreate(g) == "create"

\* the branch an apply step takes on what its Get returned: Create when the
\* error is NotFound, Update when there is none
ApplyVerb(g) == IF g.found THEN "update" ELSE "create"

\* c.Create(ctx, obj) when the Get returned NotFound; otherwise
\* obj.ResourceVersion = resource.ResourceVersion and c.Update(ctx, obj).
\* The server refuses a Create of an object it holds, an Update of one it
\* does not hold, and an Update with a ResourceVersion that is not current.
ManCreateOrUpdate ==
    /\ Live /\ manPc = "write"
    /\ \E result \in IF ctxDone THEN {"apiErr"} ELSE {"apiErr", "answer"} :
         LET key    == ObjectKey(CurrentObj)
             exists == key \in DOMAIN server
             verb   == ApplyVerb(got)
             res    == CASE result = "apiErr"            -> "apiErr"
                         [] verb = "create" /\ exists    -> "alreadyExists"
                         [] verb = "create"              -> "ok"
                         [] ~exists                      -> "notFound"
                         [] server[key].ResourceVersion # got.ResourceVersion -> "conflict"
                         [] OTHER                        -> "ok"
             stored == IF verb = "create"
                       THEN [content |-> CurrentObj, ResourceVersion |-> 1,
                             established |-> FALSE]
                       ELSE [server[key] EXCEPT !.content = CurrentObj,
                                                !.ResourceVersion = @ + 1]
         IN  /\ server' = IF res = "ok" THEN MapSet(server, key, stored) ELSE server
             /\ requests' = Append(requests, Request(verb, CurrentObj, res))
             /\ manPc' = IF res = "ok" THEN "poll" ELSE "panicApply"
             /\ crashed' = (res # "ok")
    /\ UNCHANGED <<mainPc, ctxDone, cpVars, provVars, pathVars, lastOps, kubeOps, manifest, objs,
                   pki, pURL, manRun, fnI, got>>

\* wait.PollImmediateInfiniteWithContext of the running fn, when it ends:
\* the object is gone ("deleted"), the Get fails, the object is ready, or
\* ctx is done; while none holds the poll goes on.  An error makes the fn
\* return it and createManifestObjects panic; on "ready" the loop over fns
\* goes to the next fn, or createManifestObjects returns nil.
ManPoll ==
    /\ Live /\ manPc = "poll"
    /\ LET key == ObjectKey(CurrentObj)
           outcomes ==
             IF ctxDone THEN {"apiErr", "cancelled"}
             ELSE {"apiErr"}
                  \cup (IF key \notin DOMAIN server THEN {"deleted"}
                        ELSE IF IsReady(CurrentObj, server[key]) THEN {"ready"} ELSE {})
       IN  \E res \in outcomes :
             /\ requests' = Append(requests, Request("poll", CurrentObj, res))
             /\ manPc' = CASE res # "ready"            -> "panicApply"
                           [] fnI < Len(Fns(objs))    -> "get"
                           [] OTHER                   -> "done"
             /\ fnI' = IF res = "ready" THEN fnI + 1 ELSE fnI
             /\ crashed' = (res # "ready")
    /\ UNCHANGED <<mainPc, ctxDone, cpVars, provVars, pathVars, lastOps, kubeOps, manifest, objs,
                   server, pki, pURL, manRun, got>>

\* the API server establishes a CRD it holds (a write of its status)
ServerEstablish ==
    /\ Live /\ mainPc = "manifest"
    /\ \E key \in DOMAIN server :
         /\ server[key].content.Kind = CRD
         /\ ~server[key].established
         /\ server' = [server EXCEPT ![key].established = TRUE,
                                     ![key].ResourceVersion = @ + 1]
    /\ UNCHANGED <<mainPc, crashed, ctxDone, cpVars, provVars, pathVars, lastOps, kubeOps, manPc,
                   manifest, objs, requests, pki, pURL, manRun, fnI, got>>

\* the objects deleted so far by another client
Deletes == { k \in 1..Len(requests) : requests[k].verb = "delete" }

\* another client of the API server deletes an object the run in progress
\* has still to deal with: the object of the running fn, or of a later one
\* (the run does not look again at the objects of the fns that returned)
ServerDelete ==
    /\ Live /\ manPc \in {"get", "write", "poll"}
    /\ Cardinality(Deletes) < MaxDeletes
    /\ \E j \in fnI..Len(Fns(objs)) :
         LET key == ObjectKey(Fns(objs)[j])
         IN  /\ key \in DOMAIN server
             /\ server' = MapDel(server, key)
             /\ requests' = Append(requests, Request("delete", server[key].content, "ok"))
    /\ UNCHANGED <<mainPc, crashed, ctxDone, cpVars, provVars, pathVars, lastOps, kubeOps, manPc,
                   manifest, objs, pki, pURL, manRun, fnI, got>>

\* the provider is started again, by a new process with a new ctx, after a
\* run whose reconciliation completed
ManRestart ==
    /\ Live /\ manPc = "done" /\ manRun < MaxRuns
    /\ manRun' = manRun + 1
    /\ ctxDone' = FALSE
    /\ manPc' = "setProcessState"
    /\ objs' = NoObjs
    /\ fnI' = 0
    /\ got' = NoGet
    /\ UNCHANGED <<mainPc, crashed, cpVars, provVars, pathVars, lastOps, kubeOps, manifest,
                   server, requests, pki, pURL>>

\* a mutant of ManProcessStart: the process is spawned while the objects of
\* the manifest are still being applied
ManProcessStartEarly ==
    /\ Live /\ manPc \in {"done", "get"}
    /\ \E o \in ProcessStartOutcomes("init") :
         /\ provider' = [provider EXCEPT ![1] =
                [logFile |-> "open", processState |-> o.ps,
                 webhookPort |-> pURL.webhookPort, healthPort |-> pURL.webhookPort + 1,
                 CA |-> pki.hookCA]]
         /\ manPc' = IF o.result = "ok" THEN "healthPoll" ELSE "errStart"
    /\ UNCHANGED <<mainPc, crashed, ctxDone, cpVars, pPc, pStop, pLen, mainI, wg, names,
                   readyMsg, pathVars, lastOps, kubeOps, manifest, objs, server, requests, pki, pURL,
                   manRun, fnI, got>>

\* the rest of Provider.Start once createManifestObjects returned nil: the
\* arguments and p.processState are set from the ports and the PKI,
\* processState.Init() (its error is returned), then processState.Start
ManProcessStart ==
    /\ Live /\ manPc = "done"
    /\ \E o \in { [result |-> "err", ps |-> "init"] } \cup ProcessStartOutcomes("init") :
         /\ provider' = [provider EXCEPT ![1] =
                [logFile |-> "open", processState |-> o.ps,
                 webhookPort |-> pURL.webhookPort, healthPort |-> pURL.webhookPort + 1,
                 CA |-> pki.hookCA]]
         /\ manPc' = IF o.result = "ok" THEN "healthPoll" ELSE "errStart"
    /\ UNCHANGED <<mainPc, crashed, ctxDone, cpVars, pPc, pStop, pLen, mainI, wg, names,
                   readyMsg, pathVars, lastOps, kubeOps, manifest, objs, server, requests, pki, pURL,
                   manRun, fnI, got>>

\* Provider.Start: the readiness poll on p.processState.Ready ends, and
\* Start returns nil or the error of the poll
ManHealthPoll ==
    /\ Live /\ manPc = "healthPoll"
    /\ \E r \in PollOutcomes(provider[1].processState, ctxDone) :
         manPc' = IF r = "ok" THEN "started" ELSE "errStart"
    /\ UNCHANGED <<mainPc, crashed, ctxDone, cpVars, provVars, pathVars, lastOps, kubeOps, manifest,
                   objs, server, requests, pki, pURL, manRun, fnI, got>>

NextManifest ==
    \/ ManSetProcessState
    \/ ManReadAndAdapt
    \/ ManGet
    \/ ManCreateOrUpdate
    \/ ManPoll
    \/ ServerEstablish
    \/ ServerDelete
    \/ ManRestart
    \/ ManProcessStart
    \/ ProviderHealthy(1)
    \/ ManHealthPoll
    \/ Cancel

SpecManifest == InitManifest /\ [][NextManifest]_vars


----------------------------------------------------------------------------
(* Properties of SpecManifest *)

\* the keys of the fragments of one kind, in manifest order
DocsOfKind(kind) ==
    LET IsKind(d) == d.Kind = kind
        docs == SelectSeq(manifest, IsKind)
    IN  [i \in DOMAIN docs |-> docs[i].Kind \o "/" \o docs[i].Name]

\* the order the manifest is to be applied in
ManifestApplyOrder == DocsOfKind(CRD) \o DocsOfKind(MutHook) \o DocsOfKind(ValHook)

\* the creates and updates the run r sent, in the order it sent them
IsWrite(q) == q.verb = "create" \/ q.verb = "update"

WritesOfRun(r) ==
    LET Sent(q) == IsWrite(q) /\ q.run = r
    IN  SelectSeq(requests, Sent)

\* request k is the poll of run r that observed the object key ready
ReadyAt(k, r, key) ==
    /\ requests[k].verb = "poll" /\ requests[k].result = "ready"
    /\ requests[k].run = r /\ requests[k].key = key

\* the creates, the updates and the ends of the polls of run r, in order
AppliesOfRun(r) ==
    LET Sent(q) == (IsWrite(q) \/ q.verb = "poll") /\ q.run = r
    IN  SelectSeq(requests, Sent)

\* C15: within one reconciliation the apply order is that of the manifest
\* with all CRDs first, then the mutating webhook configurations, then the
\* validating ones, each group in manifest order, one object at a time: the
\* run alternates the create or update of an object and the poll of that
\* object, object after object in that order, and goes to the next object
\* only after the poll observed the one before ready.
C15_ApplyOrder ==
    LET order == ManifestApplyOrder
    IN  \A r \in 1..manRun :
            LET applies == AppliesOfRun(r)
            IN  /\ Len(applies) <= 2 * Len(order)
                /\ \A n \in DOMAIN applies :
                      /\ applies[n].key = order[(n + 1) \div 2]
                      /\ (n % 2 = 1) => IsWrite(applies[n])
                      /\ (n % 2 = 0) => applies[n].verb = "poll"
                      /\ (n < Len(applies)) => applies[n].result \in {"ok", "ready"}

\* a manifest that lists a validating webhook configuration and then a CRD
\* has been applied: the CRD, observed established, then the configuration
C15_Witness ==
    /\ manPc = "done"
    /\ Len(manifest) = 2
    /\ manifest[1].Kind = ValHook /\ manifest[2].Kind = CRD
    /\ Len(WritesOfRun(1)) = 2
    /\ WritesOfRun(1)[1].key = CRD \o "/" \o manifest[2].Name
    /\ WritesOfRun(1)[2].key = ValHook \o "/" \o manifest[1].Name
    /\ \A j \in 1..2 : WritesOfRun(1)[j].result = "ok"
    /\ \E k \in DOMAIN requests : ReadyAt(k, 1, WritesOfRun(1)[1].key)

\* the apiVersion supported for a managed kind
SupportedVersion(kind) ==
    IF kind = "CustomResourceDefinition" THEN "apiextensions.k8s.io/v1"
    ELSE "admissionregistration.k8s.io/v1"

ManagedKinds ==
    {"CustomResourceDefinition", "MutatingWebhookConfiguration",
     "ValidatingWebhookConfiguration"}

\* fragment i of the manifest declares a managed kind in another version
Unsupported(i) ==
    /\ manifest[i].Kind \in ManagedKinds
    /\ manifest[i].APIVersion # SupportedVersion(manifest[i].Kind)

\* C16: if a fragment of the manifest declares a managed kind with an
\* apiVersion other than the supported one, no request for any object of the
\* manifest is sent to the API server, and once the manifest has been read
\* the reconciliation has failed with the configuration error: it neither
\* applies an object nor completes.
C16_UnsupportedVersionFailsBeforeAnyRequest ==
    (\E i \in DOMAIN manifest : Unsupported(i)) =>
        /\ requests = <<>>
        /\ server = EmptyMap
        /\ manPc \in {"setProcessState", "errSetup", "read", "panicClient", "errRead",
                      "errConfig"}

\* a valid CRD precedes a fragment of an unsupported version: the
\* reconciliation returned the configuration error and sent nothing
C16_Witness ==
    /\ Len(manifest) >= 2
    /\ manifest[1].Kind = CRD /\ ~Unsupported(1)
    /\ Unsupported(2)
    /\ manPc = "errConfig"
    /\ ~crashed
    /\ requests = <<>>


\* the objects of the manifest in force, as the run in progress adapted them
LocalDefinitions == { Fns(objs)[j] : j \in DOMAIN Fns(objs) }

\* the reconciliation of the second run in a row completed, and no other
\* client deleted an object during it
SecondRunDone ==
    /\ manRun = 2
    /\ manPc = "done"
    /\ \A k \in Deletes : requests[k].run = 1

\* the calls of the client c, without the events of the API server
ClientRequests ==
    LET ByClient(q) == q.verb # "delete"
    IN  SelectSeq(requests, ByClient)

\* C17: apply is a create-or-update: every create or update follows the get
\* of the same object by the same run, a create when the get found nothing
\* and an update when it found the object; and after reconcile-then-apply has
\* run twice in a row for one manifest the server holds one object for each
\* intended (kind, name) and no other, whose content is the local definition.
C17_ApplyIsIdempotent ==
    /\ LET calls == ClientRequests
       IN  \A k \in DOMAIN calls :
              IsWrite(calls[k]) =>
                 /\ k > 1
                 /\ calls[k - 1].verb = "get"
                 /\ calls[k - 1].key = calls[k].key
                 /\ calls[k - 1].run = calls[k].run
                 /\ calls[k - 1].result \in {"found", "notFound"}
                 /\ (calls[k].verb = "create") = (calls[k - 1].result = "notFound")
    /\ SecondRunDone =>
          /\ DOMAIN server = { ManifestApplyOrder[j] : j \in DOMAIN ManifestApplyOrder }
          /\ \A obj \in LocalDefinitions :
                server[obj.Kind \o "/" \o obj.Name].content = obj

\* the second run updated the CRD the first run created: the server holds
\* one object, with the callback of the second run
C17_Witness ==
    /\ SecondRunDone
    /\ Deletes = {}
    /\ Len(Fns(objs)) = 2
    /\ \A j \in DOMAIN WritesOfRun(1) : WritesOfRun(1)[j].verb = "create"
    /\ \A j \in DOMAIN WritesOfRun(2) : WritesOfRun(2)[j].verb = "update"
    /\ Len(WritesOfRun(2)) = 2
    /\ Cardinality(DOMAIN server) = 2
    /\ \E key \in DOMAIN server :
          /\ server[key].content.Kind = CRD
          /\ server[key].content.Conversion.Webhook.ClientConfig.URL
                = "https://127.0.0.1:3/convert"

\* an apply step of the run in progress failed: a call of the client
\* returned an error, or the poll ended on a deleted object or on an error
ApplyFailed ==
    \E k \in DOMAIN requests :
        /\ requests[k].verb \in {"get", "create", "update", "poll"}
        /\ requests[k].run = manRun
        /\ requests[k].result \notin {"found", "notFound", "ok", "ready"}

\* the poll of the run in progress found its object deleted
DeletedMidPoll ==
    \E k \in DOMAIN requests :
        /\ requests[k].verb = "poll" /\ requests[k].result = "deleted"
        /\ requests[k].run = manRun

\* C18: an object deleted while its readiness is polled, or any other apply
\* failure, is an error of the provider's own startup: the reconciliation
\* ends, without a retry, by returning an error to Provider.Start, and the
\* process that runs the sibling providers and the coordinator goes on.
C18_ApplyFailureIsReturnedAsError ==
    ApplyFailed =>
        /\ ~crashed
        /\ manPc \in {"errApply"}

\* the part of C18 that holds: an apply failure is not retried, the
\* failed call is the last request of the run
C18_ApplyFailureIsNotRetried ==
    ApplyFailed =>
        /\ manPc = "panicApply"
        /\ \A k \in DOMAIN requests :
              (requests[k].run = manRun
                 /\ requests[k].result \notin {"found", "notFound", "ok", "ready"})
              => \A k2 \in (k + 1)..Len(requests) : requests[k2].verb = "delete"


\* the fragments of one kind, in manifest order: fragment i of them is the
\* origin of object i of that kind in objs
OriginsOfKind(kind) ==
    LET IsKind(d) == d.Kind = kind
    IN  SelectSeq(manifest, IsKind)

\* the service paths of the manifests that begin with "/"
SlashPaths == {"/mutate", "/validate", "/convert"}

\* the webhook configurations of objs of one kind
AdaptedOfKind(kind) == IF kind = MutHook THEN objs.mutHooks ELSE objs.valHooks

\* C19: for every webhook entry of a mutating or validating webhook
\* configuration whose service path is a path P beginning with "/", the
\* rewritten callback is https://<host>:<webhook port> followed by P, and the
\* service reference is discarded.
C19_CallbackIsEndpointFollowedByPath ==
    \A kind \in {MutHook, ValHook} :
        \A i \in DOMAIN AdaptedOfKind(kind) :
            \A j \in DOMAIN AdaptedOfKind(kind)[i].Webhooks :
                LET P       == OriginsOfKind(kind)[i].Webhooks[j].Service.Path
                    adapted == AdaptedOfKind(kind)[i].Webhooks[j]
                IN  P \in SlashPaths =>
                       /\ adapted.URL = "https://" \o pURL.host \o ":"
                                           \o Itoa(pURL.webhookPort) \o P
                       /\ adapted.Service.isNil

\* the part of C19 that holds: the service reference is discarded and the
\* callback is the endpoint, a "/", and then the path as it was
C19_CallbackIsEndpointSlashPath ==
    \A kind \in {MutHook, ValHook} :
        \A i \in DOMAIN AdaptedOfKind(kind) :
            \A j \in DOMAIN AdaptedOfKind(kind)[i].Webhooks :
                LET P       == OriginsOfKind(kind)[i].Webhooks[j].Service.Path
                    adapted == AdaptedOfKind(kind)[i].Webhooks[j]
                IN  /\ adapted.URL = "https://" \o pURL.host \o ":"
                                        \o Itoa(pURL.webhookPort) \o "/" \o P
                    /\ adapted.Service.isNil


\* the CA bundles attached to the objects of objs: that of the conversion
\* webhook of each CRD and that of each webhook of each webhook configuration
AttachedCABundles ==
    { objs.crds[i].Conversion.Webhook.ClientConfig.CABundle : i \in DOMAIN objs.crds }
    \cup UNION { { objs.mutHooks[i].Webhooks[j].CABundle :
                       j \in DOMAIN objs.mutHooks[i].Webhooks } : i \in DOMAIN objs.mutHooks }
    \cup UNION { { objs.valHooks[i].Webhooks[j].CABundle :
                       j \in DOMAIN objs.valHooks[i].Webhooks } : i \in DOMAIN objs.valHooks }

\* C20: the CA bundle attached to every rewritten webhook callback and CRD
\* conversion webhook of a provider is the certificate of the certificate
\* authority created for that provider, and a CA is given to one provider only.
C20_CABundleIsCertificateOfOwnCA ==
    /\ \A bundle \in AttachedCABundles : bundle = <<"ca", pki.hookCA>>
    /\ (manPc \notin {"setProcessState", "errSetup"}) => pki.hookCA = manRun

\* the part of C20 that holds: every bundle attached is a certificate signed
\* by the CA created for this run of the provider, which no other run was given
C20_CABundleIsSignedByOwnCA ==
    /\ \A bundle \in AttachedCABundles :
          bundle = <<"serving", pki.hookCA, <<"localhost", pURL.host>> >>
    /\ (manPc \notin {"setProcessState", "errSetup"}) => pki.hookCA = manRun


\* a fragment of a webhook configuration has a webhook without a service
\* reference or without a service path
LacksServicePath(doc) ==
    /\ doc.Kind \in {MutHook, ValHook}
    /\ \E j \in DOMAIN doc.Webhooks :
          doc.Webhooks[j].Service.isNil \/ doc.Webhooks[j].Service.Path = "nil"

\* C21: the conversion webhook pointing at https://<endpoint>/convert is
\* injected into a CRD only if the CRD has no conversion strategy; a CRD that
\* declares one keeps it unchanged, and adapting it does not fail.
C21_ConversionInjectedOnlyIfAbsent ==
    /\ \A i \in DOMAIN objs.crds :
          LET origin  == OriginsOfKind(CRD)[i].Conversion
              adapted == objs.crds[i].Conversion
          IN  IF origin.isNil
              THEN /\ adapted.Strategy = "Webhook"
                   /\ adapted.Webhook.ClientConfig.URL
                         = "https://" \o pURL.host \o ":" \o Itoa(pURL.webhookPort)
                              \o "/convert"
              ELSE adapted = origin
    /\ (manPc = "panicAdapt") => \E i \in DOMAIN manifest : LacksServicePath(manifest[i])

\* what the code does instead: every adapted CRD has the webhook strategy
\* pointing at the endpoint, whatever it declared
C21_ConversionIsAlwaysOverwritten ==
    \A i \in DOMAIN objs.crds :
        /\ objs.crds[i].Conversion.Strategy = "Webhook"
        /\ objs.crds[i].Conversion.Webhook.ConversionReviewVersions = <<"v1", "v1beta1">>
        /\ objs.crds[i].Conversion.Webhook.ClientConfig.URL
              = "https://" \o pURL.host \o ":" \o Itoa(pURL.webhookPort) \o "/convert"


\* the keys of the objects the run in progress applied with success
AppliedKeys ==
    { requests[k].key : k \in { j \in DOMAIN requests :
          /\ IsWrite(requests[j])
          /\ requests[j].run = manRun
          /\ requests[j].result = "ok" } }

\* the keys of the fragments of the manifest of the three managed kinds
ManagedKeys ==
    { ManifestApplyOrder[j] : j \in DOMAIN ManifestApplyOrder }

\* C27: fragments whose kind is none of CustomResourceDefinition,
\* MutatingWebhookConfiguration, ValidatingWebhookConfiguration are skipped
\* whatever their apiVersion: the configuration error only comes from a
\* fragment of a managed kind, every request to the API server is about a
\* fragment of a managed kind, and when the reconciliation completes the
\* applied objects are exactly the fragments of the managed kinds.
C27_OtherKindsAreSkipped ==
    LET order   == ManifestApplyOrder
        managed == { order[j] : j \in DOMAIN order }
        fns     == Fns(objs)
    IN  /\ (manPc = "errConfig") => \E i \in DOMAIN manifest : Unsupported(i)
        /\ \A k \in DOMAIN requests : requests[k].key \in managed
        /\ DOMAIN server \subseteq managed
        /\ (manPc \in {"get", "write", "poll", "panicApply", "done"}) =>
              [j \in DOMAIN fns |-> ObjectKey(fns[j])] = order
        /\ (manPc = "done") => AppliedKeys = managed

\* a manifest of a Deployment of a removed apiVersion and a CRD was
\* reconciled: one object applied, the Deployment skipped
C27_Witness ==
    /\ Len(manifest) = 2
    /\ manifest[1].Kind = "Deployment" /\ manifest[1].APIVersion = "extensions/v1beta1"
    /\ manifest[2].Kind = CRD
    /\ manPc = "done"
    /\ AppliedKeys = {ObjectKey(manifest[2])}
    /\ Cardinality(DOMAIN server) = 1


\* the run in progress sent a create or update of key that succeeded and,
\* later, a poll of key that found it ready
AppliedThenReady(key) ==
    \E w, p \in DOMAIN requests :
        /\ w < p
        /\ requests[w].key = key /\ requests[w].run = manRun
        /\ IsWrite(requests[w]) /\ requests[w].result = "ok"
        /\ requests[p].key = key /\ requests[p].run = manRun
        /\ requests[p].verb = "poll" /\ requests[p].result = "ready"

\* the poll of the running fn is of a CRD the server holds and has not
\* established, and ctx is not done
PollingUnestablishedCRD ==
    /\ manPc = "poll" /\ ~ctxDone
    /\ CurrentObj.Kind = CRD
    /\ ObjectKey(CurrentObj) \in DOMAIN server
    /\ ~server[ObjectKey(CurrentObj)].established

\* C29: a poll ends with success only on an object the server holds that
\* satisfies the predicate of its kind (a CRD is Established, a webhook
\* configuration exists); the reconciliation completes only with every
\* managed object applied and then found ready by a later poll; and the poll
\* of a CRD that is not Established goes on: until ctx is done it is left only
\* by a failed request to the API server, never by a success or a timeout.
C29_CompletesOnlyAfterEveryObjectIsReady ==
    [][ /\ (manPc = "poll" /\ manPc' \in {"get", "done"}) =>
              /\ ObjectKey(CurrentObj) \in DOMAIN server
              /\ CurrentObj.Kind = CRD => server[ObjectKey(CurrentObj)].established
              /\ requests'[Len(requests')].verb = "poll"
              /\ requests'[Len(requests')].key = ObjectKey(CurrentObj)
        /\ (manPc # "done" /\ manPc' = "done") =>
              \A key \in ManagedKeys :
                  \E w, p \in DOMAIN requests' :
                      /\ w < p
                      /\ requests'[w].key = key /\ requests'[w].run = manRun
                      /\ IsWrite(requests'[w]) /\ requests'[w].result = "ok"
                      /\ requests'[p].key = key /\ requests'[p].run = manRun
                      /\ requests'[p].verb = "poll" /\ requests'[p].result = "ready"
        /\ PollingUnestablishedCRD =>
              \/ manPc' = "poll"
              \/ /\ manPc' = "panicApply"
                 /\ requests'[Len(requests')].result = "apiErr"
      ]_vars

\* a CRD and a webhook configuration were reconciled: each was applied and
\* then found ready, the CRD established by the server in between
C29_Witness ==
    /\ Len(manifest) = 2
    /\ manifest[1].Kind = MutHook /\ manifest[2].Kind = CRD
    /\ manPc = "done" /\ manRun = 1
    /\ \A key \in ManagedKeys : AppliedThenReady(key)
    /\ server[ObjectKey(manifest[2])].established


\* the three derived keys of the control plane's cluster are in the file
DerivedKeysInFile ==
    /\ kubeconfig.exists
    /\ DerivedClusterKey(ClusterName) \in DOMAIN kubeconfig.config.Clusters
    /\ DerivedUserKey(ClusterName)    \in DOMAIN kubeconfig.config.AuthInfos
    /\ DerivedContextKey(ClusterName) \in DOMAIN kubeconfig.config.Contexts

\* step `step` is in log
InLog(step) == \E k \in DOMAIN log : log[k].step = step

\* C30: ControlPlane.Stop returns at its first failing step.  A stop step
\* that returned an error is the last step made; if it is the stop of the API
\* server, the store is not stopped (its process, if spawned, is alive and
\* its data directory is not removed) and the credentials are not removed;
\* if it is the stop of the store, the credentials are not removed: the
\* derived keys a successful publication wrote are still in the file.
C30_StopReturnsAtFirstError ==
    \A j \in DOMAIN log :
        (log[j].step \in {"apiServer.Stop", "etcd.Stop", "Remove"} /\ log[j].result = "err") =>
            /\ j = Len(log)
            /\ cpPc = "stopErr"
            /\ (log[j].step = "apiServer.Stop" =>
                  /\ ~ InLog("etcd.Stop") /\ ~ InLog("Remove")
                  /\ (BeforeOK("etcd.Start", j) =>
                         Alive(etcd.processState) /\ etcd.dataDir = "exists")
                  /\ (BeforeOK("CreateOrMerge", j) => DerivedKeysInFile))
            /\ (log[j].step = "etcd.Stop" =>
                  /\ ~ InLog("Remove")
                  /\ BeforeOK("apiServer.Stop", j)
                  /\ (BeforeOK("CreateOrMerge", j) => DerivedKeysInFile))

\* Stop after a successful Start returned the error of the API server's
\* stop: both processes are alive and the derived keys are in the file
C30_Witness ==
    /\ mainPc = "stopReturned" /\ cpPc = "stopErr"
    /\ BeforeOK("CreateOrMerge", Len(log))
    /\ log[Len(log)] = Step("apiServer.Stop", "err", 0)
    /\ Alive(apiServer.processState) /\ Alive(etcd.processState)
    /\ DerivedKeysInFile


\* ControlPlane.Start returned nil
CPStartReturnedNil == BeforeOK("CreateOrMerge", Len(log) + 1)

\* C26: after ControlPlane.Start returned nil, the context name it published
\* (cp.KubeConfigContext) is non-empty and is the derived context key of the
\* cluster, which is then the current context of the credentials file; after
\* a following ControlPlane.Stop returned nil, that context is absent from
\* the credentials file and the store's data directory has been deleted.
C26_ContextPublishedThenRemoved ==
    CPStartReturnedNil =>
        /\ cpKubeConfigContext # ""
        /\ cpKubeConfigContext = DerivedContextKey(ClusterName)
        /\ (cpPc = "startOK" =>
              /\ kubeconfig.exists
              /\ kubeconfig.config.CurrentContext = cpKubeConfigContext
              /\ cpKubeConfigContext \in DOMAIN kubeconfig.config.Contexts)
        /\ (cpPc = "stopOK" =>
              /\ cpKubeConfigContext \notin DOMAIN kubeconfig.config.Contexts
              /\ kubeconfig.config.CurrentContext # cpKubeConfigContext
              /\ etcd.dataDir = "removed"
              /\ ~ Alive(etcd.processState))

\* Start, then Stop, both returned nil, on a file that held the entries of
\* another tool, which are still there
C26_Witness ==
    /\ mainPc = "stopReturned" /\ cpPc = "stopOK"
    /\ CPStartReturnedNil
    /\ cpKubeConfigContext = "kBB-8-bootstrap"
    /\ etcd.dataDir = "removed"
    /\ kubeconfig.exists
    /\ DOMAIN kubeconfig.config.Contexts # {}
    /\ "kBB-8-bootstrap" \notin DOMAIN kubeconfig.config.Contexts


----------------------------------------------------------------------------
(* SpecHandle: a caller that holds one component handle (an Etcd, an       *)
(* APIServer or a Provider), may call its Start once, and calls its Stop   *)
(* up to MaxStops times, in any state of the handle                        *)

\* number of Stop calls on the handle
MaxStops == 2

\* the Stop calls made so far
StopsInLog ==
    { k \in DOMAIN log : log[k].step \in {"etcd.Stop", "apiServer.Stop", "p.Stop"} }

InitHandle ==
    /\ InitCommon
    /\ package = [i \in Providers |-> i]
    /\ ManIdle
    /\ mainPc \in {"handleEtcd", "handleAPIServer", "handleProvider"}
    /\ kubeconfig = NoFile

\* e := &Etcd{}; e.Start()
HandleStartEtcd ==
    /\ Live /\ mainPc = "handleEtcd" /\ cpPc = "idle" /\ StopsInLog = {}
    /\ \E o \in EtcdStartOutcomes(nextPort) :
         /\ etcd' = o.c
         /\ nextPort' = nextPort + o.ports
         /\ cpPc' = IF o.result = "ok" THEN "startOK" ELSE "startErr"
         /\ log' = Append(log, Step("etcd.Start", o.result, 0))
    /\ UNCHANGED <<mainPc, crashed, ctxDone, apiServer, cpKubeConfigContext, kubeconfig,
                   nextCA, provVars, pathVars, lastOps, kubeOps, manVars>>

\* a := &APIServer{EtcdURL: ...}; a.Start()
HandleStartAPIServer ==
    /\ Live /\ mainPc = "handleAPIServer" /\ cpPc = "idle" /\ StopsInLog = {}
    /\ \E o \in APIServerStartOutcomes(etcd.URL, nextPort, nextCA) :
         /\ apiServer' = o.c
         /\ nextPort' = nextPort + o.ports
         /\ nextCA' = nextCA + o.cas
         /\ cpPc' = IF o.result = "ok" THEN "startOK" ELSE "startErr"
         /\ log' = Append(log, Step("apiServer.Start", o.result, 0))
    /\ UNCHANGED <<mainPc, crashed, ctxDone, etcd, cpKubeConfigContext, kubeconfig,
                   provVars, pathVars, lastOps, kubeOps, manVars>>

\* p := &Provider{...}; p.Start(ctx, kubeConfig) is called
HandleStartProvider ==
    /\ Live /\ mainPc = "handleProvider" /\ pPc[1] = "notLaunched" /\ StopsInLog = {}
    /\ pPc' = [pPc EXCEPT ![1] = "setProcessState"]
    /\ UNCHANGED <<mainPc, crashed, ctxDone, cpVars, provider, pStop, pLen, mainI, wg,
                   names, readyMsg, pathVars, lastOps, kubeOps, manVars>>

\* e.Stop(), not while e.Start() runs
HandleStopEtcd ==
    /\ Live /\ mainPc = "handleEtcd" /\ Cardinality(StopsInLog) < MaxStops
    /\ \E o \in EtcdStopOutcomes(etcd) :
         /\ etcd' = o.c
         /\ crashed' = (o.result = "panic")
         /\ log' = Append(log, Step("etcd.Stop", o.result, 0))
    /\ UNCHANGED <<mainPc, ctxDone, cpPc, apiServer, cpKubeConfigContext, kubeconfig,
                   nextPort, nextCA, provVars, pathVars, lastOps, kubeOps, manVars>>

\* a.Stop(), not while a.Start() runs
HandleStopAPIServer ==
    /\ Live /\ mainPc = "handleAPIServer" /\ Cardinality(StopsInLog) < MaxStops
    /\ \E o \in APIServerStopOutcomes(apiServer) :
         /\ apiServer' = o.c
         /\ crashed' = (o.result = "panic")
         /\ log' = Append(log, Step("apiServer.Stop", o.result, 0))
    /\ UNCHANGED <<mainPc, ctxDone, cpPc, etcd, cpKubeConfigContext, kubeconfig,
                   nextPort, nextCA, provVars, pathVars, lastOps, kubeOps, manVars>>

\* p.Stop(), not while p.Start() runs: before it is called, or after it
\* returned an error or nil
HandleStopProvider ==
    /\ Live /\ mainPc = "handleProvider" /\ Cardinality(StopsInLog) < MaxStops
    /\ pPc[1] \in {"notLaunched", "startErr", "append"}
    /\ \E o \in ProviderStopOutcomes(provider[1]) :
         /\ provider' = [provider EXCEPT ![1] = o.c]
         /\ pStop' = [pStop EXCEPT ![1] = o.result]
         /\ crashed' = (o.result = "panic")
         /\ log' = Append(log, Step("p.Stop", o.result, 1))
    /\ UNCHANGED <<mainPc, ctxDone, cpPc, etcd, apiServer, cpKubeConfigContext, kubeconfig,
                   nextPort, nextCA, pPc, pLen, mainI, wg, names, readyMsg, pathVars, lastOps,
                   kubeOps, manVars>>

NextHandle ==
    \/ HandleStartEtcd
    \/ HandleStartAPIServer
    \/ HandleStartProvider
    \/ PSetProcessState(1)
    \/ PProcessStart(1)
    \/ PPoll(1)
    \/ EtcdHealthy
    \/ APIServerHealthy
    \/ ProviderHealthy(1)
    \/ Cancel
    \/ HandleStopEtcd
    \/ HandleStopAPIServer
    \/ HandleStopProvider

SpecHandle == InitHandle /\ [][NextHandle]_vars

\* the handle of SpecHandle
TheHandle ==
    CASE mainPc = "handleEtcd"      -> etcd
      [] mainPc = "handleAPIServer" -> apiServer
      [] OTHER                      -> provider[1]

\* Start of the handle of SpecHandle has not returned nil
StartNeverCompleted ==
    IF mainPc = "handleProvider" THEN pPc[1] \in {"notLaunched", "startErr"}
    ELSE cpPc \in {"idle", "startErr"}

\* Stop call j follows a Stop that returned nil
SecondStop(j) == \E k \in StopsInLog : k < j /\ log[k].result = "ok"

\* C24: Stop on a component handle is safe in every state: on a handle whose
\* Start never completed, and a second time after a Stop that succeeded, it
\* neither panics nor returns an error; and after a Stop that returned
\* without error the OS process is released and the log file is closed.
C24_StopIsSafeInEveryState ==
    /\ \A j \in StopsInLog :
          (StartNeverCompleted \/ SecondStop(j)) => log[j].result = "ok"
    /\ (log # <<>> /\ Len(log) \in StopsInLog /\ log[Len(log)].result = "ok") =>
          /\ ~ Alive(TheHandle.processState)
          /\ TheHandle.logFile # "open"

\* what the code ensures: a Stop that returned without error has released
\* the process and closed the log file, and Stop does not panic on a handle
\* whose process state was set
C24_SuccessfulStopReleases ==
    /\ (log # <<>> /\ Len(log) \in StopsInLog /\ log[Len(log)].result = "ok") =>
          /\ ~ Alive(TheHandle.processState)
          /\ TheHandle.logFile = "closed"
    /\ \A j \in StopsInLog :
          /\ log[j].result = "panic" => TheHandle.processState = "nil"
          /\ SecondStop(j) => log[j].result = "err"


\* provider i's readiness poll was aborted: its Start returned the error of
\* the poll on a process that was spawned
PollAborted(i) ==
    /\ pPc[i] \in {"startErr", "startPanic"}
    /\ Alive(provider[i].processState)

\* C22: one cancellation aborts every readiness poll in flight, each with an
\* error, and after a bootstrap cancelled that way Stop is still run, in
\* order, for every provider and control-plane component that had started:
\* when the program has ended, every provider that reached Start and both
\* control-plane components have had their Stop run.
C22_CancelledBootstrapIsStoppedInOrder ==
    /\ \A i \in Providers : PollAborted(i) => ctxDone
    /\ (Terminated /\ \E i \in Providers : PollAborted(i)) =>
          /\ \A i \in Providers :
                ReachedStart(i) => \E k \in DOMAIN log : log[k].step = "p.Stop" /\ log[k].p = i
          /\ InLog("apiServer.Stop")
          /\ InLog("etcd.Stop")
          /\ \A j \in DOMAIN log :
                log[j].step = "apiServer.Stop" =>
                    \A i \in Providers : ReachedStart(i) =>
                        \E k \in 1..(j - 1) : log[k].step = "p.Stop" /\ log[k].p = i

\* what the code ensures: a poll on a spawned process ends with an error
\* only once ctx is done, and the program then ends without any Stop
C22_AbortedPollEndsTheProgram ==
    /\ \A i \in Providers : PollAborted(i) => ctxDone
    /\ (Terminated /\ \E i \in Providers : PollAborted(i)) =>
          /\ crashed
          /\ ~ InLog("p.Stop") /\ ~ InLog("apiServer.Stop") /\ ~ InLog("etcd.Stop")


\* C28: a provider runs its sub-steps strictly in sequence: ports, then CA
\* and serving certificate, then the reconciliation of the manifest, then the
\* spawn, then the readiness poll.  The CA is made with the ports allocated;
\* the manifest is read and applied with the ports and the certificate of
\* this start; the process is spawned only after every managed object of the
\* manifest was applied and then found ready; and Start returns nil only
\* with the process's health check answered.
C28_ProviderSubStepsAreSequential ==
    /\ (pki # NilPKI) => (pURL # NilURL)
    /\ (manPc \in {"read", "get", "write", "poll", "done", "healthPoll", "started"}) =>
          /\ pURL.webhookPort = nextPort - 2
          /\ pki.hookCA = nextCA - 1
    /\ (manPc \in {"setProcessState", "errSetup", "read"}) =>
          (requests = <<>> \/ requests[Len(requests)].run # manRun)
    /\ (provider[1].processState # "nil") =>
          /\ manPc \in {"healthPoll", "started", "errStart"}
          /\ LET order == ManifestApplyOrder
                 sent  == AppliesOfRun(manRun)
             IN  /\ Len(sent) = 2 * Len(order)
                 /\ \A n \in DOMAIN order :
                       /\ IsWrite(sent[2 * n - 1]) /\ sent[2 * n - 1].result = "ok"
                       /\ sent[2 * n - 1].key = order[n]
                       /\ sent[2 * n].verb = "poll" /\ sent[2 * n].result = "ready"
                       /\ sent[2 * n].key = order[n]
          /\ provider[1].webhookPort = pURL.webhookPort
          /\ provider[1].CA = pki.hookCA
    /\ Alive(provider[1].processState) =>
          \/ manPc \in {"healthPoll", "started"}
          \/ manPc = "errStart" /\ ctxDone
    /\ (manPc = "started") => provider[1].processState = "ready"

\* a provider with a CRD and a webhook configuration in its manifest has
\* started: both were applied and found ready, then the process was spawned
\* and answered its health check
C28_Witness ==
    /\ manPc = "started"
    /\ Len(manifest) = 2
    /\ manifest[1].Kind = CRD /\ manifest[2].Kind = ValHook
    /\ \A key \in ManagedKeys : AppliedThenReady(key)
    /\ provider[1].processState = "ready"
    /\ provider[1].webhookPort = pURL.webhookPort /\ pURL.webhookPort > 0
    /\ provider[1].CA = pki.hookCA /\ pki.hookCA > 0


----------------------------------------------------------------------------
(* SpecProviders: the provider goroutines of main, for providers of any    *)
(* artifact paths, up to the return of each Provider.Start                 *)

\* the entries of Packages that are not of main's list
ArtifactPackages == { k \in DOMAIN Packages : k > Len(MainPackages) }

InitProviders ==
    /\ InitCommon
    /\ ManIdle
    /\ mainPc = "providers"
    /\ kubeconfig = FileOf(merge(create(1, ClusterName, 1), NewConfig))
    /\ package \in [Providers -> ArtifactPackages]

\* main's loop over providers: every goroutine is launched
LaunchAll ==
    /\ Live /\ mainPc = "providers"
    /\ \A i \in Providers : pPc[i] = "notLaunched"
    /\ pPc' = [i \in Providers |-> "setProcessState"]
    /\ UNCHANGED <<mainPc, crashed, ctxDone, cpVars, provider, pStop, pLen, mainI, wg,
                   names, readyMsg, pathVars, lastOps, kubeOps, manVars>>

NextProviders ==
    \/ LaunchAll
    \/ \E i \in Providers : PSetProcessState(i)
    \/ \E i \in Providers : PProcessStart(i)
    \/ \E i \in Providers : ProviderHealthy(i)
    \/ \E i \in Providers : PPoll(i)

SpecProviders == InitProviders /\ [][NextProviders]_vars

----------------------------------------------------------------------------
(* Properties of SpecProviders *)

\* p.PackagePath of provider i
PackagePath(i) == Packages[package[i]]

\* provider i's setProcessState has derived its name
NameDerived(i) == pPc[i] \notin {"notLaunched", "setProcessState"}

\* Name() and localPath of every entry of Packages
PackageNames == [k \in DOMAIN Packages |-> Name(Packages[k])]

PackageLocalPaths == [k \in DOMAIN Packages |-> LocalPathOf(Packages[k])]

\* what provider i derived from its artifact path so far: its name, the log
\* file it has opened, the certificate directory its setupPKI has written
Local(i) ==
    [name    |-> IF NameDerived(i) THEN PackageNames[package[i]] ELSE <<>>,
     logFile |-> IF provider[i].logFile = "nil" THEN <<>>
                 ELSE ManagerLog(PackageLocalPaths[package[i]]),
     certDir |-> IF provider[i].CA = 0 THEN <<>>
                 ELSE ServingCertDir(PackageLocalPaths[package[i]])]

\* the names the artifact paths of ArtifactPathList are to yield
ExpectedNames ==
    << <<"X">>, <<"Y">>, <<"X">>, <<"X">>,
       <<"M", "Y", "-", "B", "O", "O", "T", "S", "T", "R", "A", "P", "-", "X">>,
       <<"X">> >>

\* C25: the derived name of a provider is the base name of its artifact path,
\* without the prefix "bootstrap-" when the base name begins with it,
\* upper-cased: a/bootstrap-x and a/bootstrap-y yield X and Y, a prefix that
\* is not at the start stays; and it is the same whatever the other
\* providers have done and whichever became ready first.
C25_NameIsBaseWithoutPrefixUpperCased ==
    \A i \in Providers :
        /\ NameDerived(i) =>
              \A k \in DOMAIN ArtifactPathList :
                  PackagePath(i) = ArtifactPathList[k] => Local(i).name = ExpectedNames[k]
        /\ ~ NameDerived(i) => Local(i).name = <<>>

\* providers of a/bootstrap-x and a/bootstrap-y, in either order: the one
\* listed second returned from Start, ready, while the first still polls,
\* and they are named X and Y
C25_Witness ==
    /\ {PackagePath(1), PackagePath(2)} = {ArtifactPathList[1], ArtifactPathList[2]}
    /\ pPc[2] = "append" /\ provider[2].processState = "ready"
    /\ pPc[1] = "poll" /\ provider[1].processState = "running"
    /\ {Local(1).name, Local(2).name} = {<<"X">>, <<"Y">>}
    /\ Local(1).name = (IF PackagePath(1) = ArtifactPathList[1] THEN <<"X">> ELSE <<"Y">>)

\* the ports a provider was given
PortsOf(i) == {provider[i].webhookPort, provider[i].healthPort} \ {0}

\* C23: two distinct providers of one run share no resource: the log files
\* they opened, the certificate directories they wrote and the ports they
\* were given are pairwise distinct, whatever their artifact paths.
C23_ProvidersShareNoResource ==
    \A i, j \in Providers :
        (i # j) =>
            /\ (Local(i).logFile # <<>> /\ Local(j).logFile # <<>>)
                   => Local(i).logFile # Local(j).logFile
            /\ (Local(i).certDir # <<>> /\ Local(j).certDir # <<>>)
                   => Local(i).certDir # Local(j).certDir
            /\ PortsOf(i) \cap PortsOf(j) = {}
            /\ Cardinality(PortsOf(i)) \in {0, 2}

\* what the code ensures: the ports are distinct, and the files are distinct
\* if and only if the names differ by more than letter case
C23_SharedExactlyWhenNamesCollide ==
    \A i, j \in Providers :
        (i # j) =>
            /\ PortsOf(i) \cap PortsOf(j) = {}
            /\ (Local(i).logFile # <<>> /\ Local(j).logFile # <<>>) =>
                  ((Local(i).logFile = Local(j).logFile)
                      <=> (ToLower(Local(i).name) = ToLower(Local(j).name)))

----------------------------------------------------------------------------
(* The certificate failure of CreateOrMerge *)

\* call k of SpecKube is a CreateOrMerge whose create() failed to issue the
\* client certificate
CertificateFailed(k) ==
    /\ lastOps[k].op = "CreateOrMerge"
    /\ lastOps[k].how = "certFail"

\* C31: if issuing the client certificate fails while credentials are being
\* published, CreateOrMerge returns that failure as an error value to the
\* bootstrap step and the credentials file is left unchanged (nothing is
\* merged or written).
C31_CertificateFailureIsReturned ==
    \A k \in 1..Len(lastOps) :
        CertificateFailed(k) =>
            /\ lastOps[k].result = "err"
            /\ ~ crashed
            /\ ~ lastOps[k].wrote
            /\ lastOps[k].after = lastOps[k].before

\* what holds of a certificate failure: nothing is merged or written, and
\* the call does not return: the program ends in merge
C31_CertificateFailureEndsTheProgram ==
    \A k \in 1..Len(lastOps) :
        CertificateFailed(k) =>
            /\ lastOps[k].result = "panic"
            /\ crashed
            /\ k = Len(lastOps)
            /\ ~ lastOps[k].wrote
            /\ lastOps[k].after = lastOps[k].before
            /\ kubeconfig = lastOps[k].before

----------------------------------------------------------------------------
(* Merge then remove, and the current selection *)

\* call k of SpecKube is a successful CreateOrMerge
MergeSucceeded(k) ==
    /\ lastOps[k].op = "CreateOrMerge"
    /\ lastOps[k].result = "ok"

\* the file the merge of call k found held none of the three derived keys
\* of the call's cluster name (a file that does not exist holds none)
HadNoDerivedKey(k) ==
    LET n     == lastOps[k].clusterName
        prior == LoadedConfig(lastOps[k].before)
    IN  /\ DerivedClusterKey(n) \notin DOMAIN prior.Clusters
        /\ DerivedUserKey(n)    \notin DOMAIN prior.AuthInfos
        /\ DerivedContextKey(n) \notin DOMAIN prior.Contexts

\* C32: merge unconditionally sets the current selection to the merged
\* cluster's derived context key, and merge followed by remove is not a
\* round trip on the current selection: for a file that had none of the
\* derived keys, merge then remove of the same name restores the three maps
\* exactly to their prior content but leaves the current selection empty,
\* whatever selection the file had before the merge.
C32_MergeThenRemoveLosesTheSelection ==
    /\ \A k \in 1..Len(lastOps) :
          MergeSucceeded(k) =>
              /\ lastOps[k].after.exists
              /\ lastOps[k].after.config.CurrentContext
                     = DerivedContextKey(lastOps[k].clusterName)
              /\ lastOps[k].context = DerivedContextKey(lastOps[k].clusterName)
    /\ \A k \in 1..Len(lastOps) :
          ( /\ RemoveAfterMerge(k)
            /\ lastOps[k].clusterName = lastOps[k - 1].clusterName
            /\ HadNoDerivedKey(k - 1) )
          => LET prior == LoadedConfig(lastOps[k - 1].before)
                 after == lastOps[k].after.config
             IN  /\ lastOps[k].wrote
                 /\ after.Clusters  = prior.Clusters
                 /\ after.AuthInfos = prior.AuthInfos
                 /\ after.Contexts  = prior.Contexts
                 /\ after.CurrentContext = ""

\* a file of another tool selecting its own context "ext": after the merge
\* of "bootstrap" and its removal the maps are as they were and the
\* selection "ext" is lost
C32_Witness ==
    /\ RemoveAfterMerge(2)
    /\ lastOps[1].clusterName = ClusterName
    /\ lastOps[2].clusterName = ClusterName
    /\ HadNoDerivedKey(1)
    /\ lastOps[1].before.exists
    /\ lastOps[1].before.config.CurrentContext = "ext"
    /\ "ext" \in DOMAIN lastOps[1].before.config.Contexts
    /\ lastOps[1].after.config.CurrentContext = DerivedContextKey(ClusterName)
    /\ kubeconfig.config.Contexts = lastOps[1].before.config.Contexts
    /\ kubeconfig.config.CurrentContext = ""
    /\ kubeconfig # lastOps[1].before

----------------------------------------------------------------------------
(* Webhook entries without a service path *)

\* a webhook configuration of the supported version in the manifest has an
\* entry without a service reference or without a service path
HasEntryWithoutServicePath ==
    \E i \in DOMAIN manifest : LacksServicePath(manifest[i]) /\ ~ Unsupported(i)

\* the run got past the reading of the manifest file: the process state was
\* set up, the client was created and the file was read
ManifestWasRead ==
    manPc \notin {"setProcessState", "errSetup", "read", "panicClient", "errRead"}

\* C33: webhook rewriting reads the service path of every webhook entry
\* without checking that it is present: if any entry of a supported-version
\* mutating or validating webhook configuration has no service reference or
\* no service path, reconciliation aborts abnormally (not with a returned
\* configuration error) before any object of the manifest is applied.
C33_MissingServicePathAbortsAbnormally ==
    (HasEntryWithoutServicePath /\ ManifestWasRead) =>
        /\ manPc = "panicAdapt"
        /\ crashed
        /\ requests = <<>>
        /\ server = EmptyMap

\* C33, amended: such an entry makes reconciliation abort abnormally before
\* any object is applied when no fragment of the manifest declares a managed
\* kind in an unsupported version; when one does, the version check of the
\* first loop comes first and the configuration error is returned. In both
\* cases no object of the manifest is applied.
C33_MissingServicePathAbortsUnlessVersionError ==
    (HasEntryWithoutServicePath /\ ManifestWasRead) =>
        /\ requests = <<>>
        /\ server = EmptyMap
        /\ objs = NoObjs
        /\ IF \E i \in DOMAIN manifest : Unsupported(i)
           THEN manPc = "errConfig" /\ ~ crashed
           ELSE manPc = "panicAdapt" /\ crashed

\* a manifest of a CRD and a validating webhook configuration whose entry
\* has a service reference without a path: the run ended in the rewriting
C33_Witness ==
    /\ manPc = "panicAdapt"
    /\ crashed
    /\ Len(manifest) = 2
    /\ manifest[1].Kind = CRD
    /\ ~ AdaptCRDPanics(manifest[1])
    /\ manifest[2].Name = "pathless"
    /\ HasEntryWithoutServicePath
    /\ \A i \in DOMAIN manifest : ~ Unsupported(i)
    /\ requests = <<>>

====
